---- MODULE Spec2Model ----
(***************************************************************************)
(* StockAlert Chrome extension: the content script (symbol detection,      *)
(* highlighting, mutation observer, overlay) as a state machine.           *)
(*                                                                         *)
(* A text is a sequence of one-character strings.  The document is a map   *)
(* from node ids to node records; node 1 is document.body.  Offsets of     *)
(* DOM ranges are 0-based as in the DOM; sequences are 1-based.            *)
(***************************************************************************)
EXTENDS Integers, Sequences, FiniteSets, TLC

\* ------------------------------------------------------------------------
\* Characters
\* ------------------------------------------------------------------------
Upper ==
  {"A","B","C","D","E","F","G","H","I","J","K","L","M",
   "N","O","P","Q","R","S","T","U","V","W","X","Y","Z"}

\* the word characters of the regular expression's \b that are not A-Z
OtherWord ==
  {"a","b","c","d","e","f","g","h","i","j","k","l","m",
   "n","o","p","q","r","s","t","u","v","w","x","y","z",
   "0","1","2","3","4","5","6","7","8","9","_"}

IsWordChar(c) == c \in Upper \cup OtherWord

\* ------------------------------------------------------------------------
\* Exclusion policy (symbol-detector.ts)
\* ------------------------------------------------------------------------
EXCLUDED_WORDS ==
  { <<"T","H","E">>, <<"A","N","D">>, <<"F","O","R">>, <<"A","R","E">>,
    <<"B","U","T">>, <<"N","O","T">>, <<"Y","O","U">>, <<"A","L","L">>,
    <<"C","A","N">>, <<"H","E","R">>, <<"W","A","S">>, <<"O","N","E">>,
    <<"O","U","R">>, <<"O","U","T">>, <<"D","A","Y">>, <<"G","E","T">>,
    <<"H","A","S">>, <<"H","I","M">>, <<"H","I","S">>, <<"H","O","W">>,
    <<"I","T","S">>, <<"M","A","Y">>, <<"N","E","W">>, <<"N","O","W">>,
    <<"O","L","D">>, <<"S","E","E">>, <<"T","W","O">>, <<"W","A","Y">>,
    <<"W","H","O">>, <<"B","O","Y">>, <<"D","I","D">>, <<"C","A","R">>,
    <<"L","E","T">>, <<"P","U","T">>, <<"S","A","Y">>, <<"S","H","E">>,
    <<"T","O","O">>, <<"U","S","E">>, <<"C","E","O">>, <<"U","S","A">>,
    <<"A","P","I">>, <<"U","R","L">>, <<"H","T","M","L">>, <<"C","S","S">>,
    <<"P","D","F">>, <<"F","A","Q">>, <<"C","F","O">>, <<"C","O","O">>,
    <<"C","T","O">>, <<"U","S","D">>, <<"E","U","R">>, <<"G","B","P">> }

EXCLUDED_TAGS == {"SCRIPT", "STYLE", "CODE", "PRE", "NOSCRIPT", "IFRAME"}

\* ------------------------------------------------------------------------
\* SYMBOL_PATTERN = /\b([A-Z]{1,5}(?:\.[A-Z]{1,2})?)\b/g
\* Positions p are 1-based indices into the text.
\* ------------------------------------------------------------------------
MaxLetters == 5
MaxSuffix == 2
MinSymbolLength == 2

\* \b at the gap before the character at index p (p in 1..Len+1)
WordBoundary(text, p) ==
  LET before == p > 1 /\ IsWordChar(text[p - 1])
      after  == p <= Len(text) /\ IsWordChar(text[p])
  IN  before # after

\* number of characters of A-Z from index p on, at most max
RECURSIVE UpperRun(_, _, _)
UpperRun(text, p, max) ==
  IF max = 0 \/ p > Len(text) \/ text[p] \notin Upper
  THEN 0
  ELSE 1 + UpperRun(text, p + 1, max - 1)

\* the matcher without the \b that ends SYMBOL_PATTERN
MatchLengthAtNoEndBoundary(text, p) ==
  IF ~WordBoundary(text, p) THEN 0
  ELSE
    LET run == UpperRun(text, p, MaxLetters)
        sfx == IF run > 0 /\ p + run <= Len(text) /\ text[p + run] = "."
               THEN UpperRun(text, p + run + 1, MaxSuffix) ELSE 0
    IN  IF run = 0 THEN 0 ELSE IF sfx = 0 THEN run ELSE run + 1 + sfx

\* the length of the match the backtracking matcher finds at index p, 0 when
\* there is none: the letters greedily, then the suffix greedily, then \b
MatchLengthAt(text, p) ==
  IF ~WordBoundary(text, p) THEN 0
  ELSE
    LET run == UpperRun(text, p, MaxLetters)
        Total(k, m) == IF m = 0 THEN k ELSE k + 1 + m
        Cands ==
          { c \in (1..MaxLetters) \X (0..MaxSuffix) :
              /\ c[1] <= run
              /\ c[2] > 0 =>
                   /\ p + c[1] <= Len(text)
                   /\ text[p + c[1]] = "."
                   /\ c[2] <= UpperRun(text, p + c[1] + 1, MaxSuffix)
              /\ WordBoundary(text, p + Total(c[1], c[2])) }
        Prefer(c, d) == c[1] > d[1] \/ (c[1] = d[1] /\ c[2] >= d[2])
    IN  IF Cands = {} THEN 0
        ELSE LET best == CHOOSE c \in Cands : \A d \in Cands : Prefer(c, d)
             IN  Total(best[1], best[2])

\* text.matchAll(SYMBOL_PATTERN): the matches left to right, each as
\* [index |-> 0-based start, symbol |-> matched text]
RECURSIVE MatchAllFrom(_, _)
MatchAllFrom(text, p) ==
  IF p > Len(text) THEN << >>
  ELSE LET n == MatchLengthAt(text, p)
       IN  IF n = 0 THEN MatchAllFrom(text, p + 1)
           ELSE << [index |-> p - 1, symbol |-> SubSeq(text, p, p + n - 1)] >>
                \o MatchAllFrom(text, p + n)

MatchAll(text) == MatchAllFrom(text, 1)

\* detectSymbolsInText without its EXCLUDED_WORDS test
SurvivingNoExclusion(text) ==
  SelectSeq(MatchAll(text), LAMBDA m : Len(m.symbol) >= MinSymbolLength)

\* the matches detectSymbolsInText keeps
Surviving(text) ==
  SelectSeq(MatchAll(text),
            LAMBDA m : m.symbol \notin EXCLUDED_WORDS
                       /\ Len(m.symbol) >= MinSymbolLength)

\* ------------------------------------------------------------------------
\* The document.  A node is a record; ids index the sequence of all nodes
\* ever created (a removed node keeps its record and has no parent).
\*   kind    "elem" or "text"
\*   tag     tagName of an element
\*   cls     the class the code tests: "stockalert-symbol" (a Marker),
\*           "stockalert-overlay" (the overlay panel), "" otherwise
\*   data    the characters of a text node
\*   symbol  dataset.symbol of a Marker, the token of an overlay panel
\*   kids    childNodes
\*   opacity style.opacity of an overlay panel or toast
\*   place   <<style.left, style.top>> of an overlay panel in px, << >>
\*           when not set
\*   btn     the panel's [data-action="watchlist"] button: its label, the
\*           symbol and inWatchlist its click listener was made with, and
\*           known, whether checkWatchlistStatus installed it
\* A world is [nodes, det, hl, added]: the nodes, detectedSymbols (whose
\* Range objects are live and follow every mutation), highlightedElements
\* in insertion order, and whether a childList record with added nodes was
\* produced inside document.body.
\* ------------------------------------------------------------------------
Body == 1
NoNode == 0
NoBtn ==
  [label |-> "", symbol |-> << >>, inWatchlist |-> FALSE, known |-> FALSE]

TextNode(text) ==
  [kind |-> "text", tag |-> "", cls |-> "", data |-> text, symbol |-> << >>,
   kids |-> << >>, opacity |-> "", btn |-> NoBtn, toast |-> "",
   place |-> << >>]

Element(tagName, className, children) ==
  [kind |-> "elem", tag |-> tagName, cls |-> className, data |-> << >>,
   symbol |-> << >>, kids |-> children, opacity |-> "", btn |-> NoBtn,
   toast |-> "", place |-> << >>]

SeqRange(s) == { s[i] : i \in 1..Len(s) }

\* parentNode, NoNode for a node that has none
Parent(nodes, id) ==
  IF \E p \in 1..Len(nodes) : id \in SeqRange(nodes[p].kids)
  THEN CHOOSE p \in 1..Len(nodes) : id \in SeqRange(nodes[p].kids)
  ELSE NoNode

\* the 0-based index of a child among its parent's childNodes
IndexOf(nodes, p, id) ==
  (CHOOSE i \in 1..Len(nodes[p].kids) : nodes[p].kids[i] = id) - 1

RECURSIVE Ancestors(_, _)
Ancestors(nodes, id) ==
  LET p == Parent(nodes, id)
  IN  IF p = NoNode THEN {} ELSE {p} \cup Ancestors(nodes, p)

InclusiveAncestors(nodes, id) == {id} \cup Ancestors(nodes, id)

\* isConnected: the node is document.body or below it
Connected(nodes, id) == Body \in InclusiveAncestors(nodes, id)

RECURSIVE TextContentOfKids(_, _, _)
\* Node.textContent
TextContent(nodes, id) ==
  IF nodes[id].kind = "text" THEN nodes[id].data
  ELSE TextContentOfKids(nodes, nodes[id].kids, 1)
TextContentOfKids(nodes, kids, i) ==
  IF i > Len(kids) THEN << >>
  ELSE TextContent(nodes, kids[i]) \o TextContentOfKids(nodes, kids, i + 1)

InsertSeq(s, i, x) == SubSeq(s, 1, i) \o <<x>> \o SubSeq(s, i + 1, Len(s))
RemoveSeq(s, i) == SubSeq(s, 1, i - 1) \o SubSeq(s, i + 1, Len(s))

\* the boundary points <<container, offset>> of the live ranges
Points(det) ==
  UNION { UNION { { <<det[b].dets[k].sc, det[b].dets[k].so>>,
                    <<det[b].dets[k].ec, det[b].dets[k].eo>> }
                  : k \in 1..Len(det[b].dets) }
          : b \in 1..Len(det) }

\* every boundary point <<container, offset>> of every live range moved by
\* the function F over the boundary points
MoveRanges(det, F) ==
  [b \in 1..Len(det) |->
     [det[b] EXCEPT !.dets =
        [k \in 1..Len(det[b].dets) |->
           LET d == det[b].dets[k]
               s == F[<<d.sc, d.so>>]
               e == F[<<d.ec, d.eo>>]
           IN  [d EXCEPT !.sc = s[1], !.so = s[2], !.ec = e[1], !.eo = e[2]]]]]

\* DOM "replace data" of a text node: count characters at offset give way
\* to data
ReplaceData(w, n, offset, count, data) ==
  LET old == w.nodes[n].data
      new == SubSeq(old, 1, offset) \o data
             \o SubSeq(old, offset + count + 1, Len(old))
      F(b) == IF b[1] = n /\ b[2] > offset /\ b[2] <= offset + count
              THEN <<n, offset>>
              ELSE IF b[1] = n /\ b[2] > offset + count
              THEN <<n, b[2] + Len(data) - count>>
              ELSE b
  IN  [w EXCEPT !.nodes = [w.nodes EXCEPT ![n].data = new],
                !.det = MoveRanges(w.det, [pt \in Points(w.det) |-> F(pt)])]

\* DOM "insert": node becomes the child of parent at 0-based index i; a
\* MutationObserver on body with childList and subtree sees an added node
InsertAt(w, parent, i, node) ==
  LET F(b) == IF i < Len(w.nodes[parent].kids) /\ b[1] = parent /\ b[2] > i
              THEN <<parent, b[2] + 1>>
              ELSE b
  IN  [w EXCEPT !.nodes = [w.nodes EXCEPT ![parent].kids =
                             InsertSeq(w.nodes[parent].kids, i, node)],
                !.det = MoveRanges(w.det, [pt \in Points(w.det) |-> F(pt)]),
                !.added = w.added \/ Connected(w.nodes, parent)]

\* DOM "remove": node leaves its parent
RemoveNode(w, node) ==
  LET p == Parent(w.nodes, node)
      i == IndexOf(w.nodes, p, node)
      F(b) == IF node \in InclusiveAncestors(w.nodes, b[1]) THEN <<p, i>>
              ELSE IF b[1] = p /\ b[2] > i THEN <<p, b[2] - 1>>
              ELSE b
  IN  IF p = NoNode THEN w
      ELSE [w EXCEPT !.nodes = [w.nodes EXCEPT ![p].kids =
                                  RemoveSeq(w.nodes[p].kids, i + 1)],
                     !.det = MoveRanges(w.det, [pt \in Points(w.det) |-> F(pt)])]

\* DOM "split a Text node" at offset: the tail moves to a new text node,
\* inserted after n; the new node's id is Len(w.nodes) + 1
SplitText(w, n, offset) ==
  LET old    == w.nodes[n].data
      count  == Len(old) - offset
      new    == Len(w.nodes) + 1
      p      == Parent(w.nodes, n)
      i      == IndexOf(w.nodes, p, n)
      w1     == [w EXCEPT !.nodes =
                   Append(w.nodes, TextNode(SubSeq(old, offset + 1, Len(old))))]
      w2     == InsertAt(w1, p, i + 1, new)
      F(b)   == IF b[1] = n /\ b[2] > offset THEN <<new, b[2] - offset>>
                ELSE b
      G(b)   == IF b[1] = p /\ b[2] = i + 1 THEN <<p, b[2] + 1>> ELSE b
      d1     == MoveRanges(w2.det, [b \in Points(w2.det) |-> F(b)])
      w3     == [w2 EXCEPT !.det =
                   MoveRanges(d1, [b \in Points(d1) |-> G(b)])]
  IN  ReplaceData(w3, n, offset, count, << >>)

\* ------------------------------------------------------------------------
\* SymbolDetector: scanning
\* detectedSymbols is a Map in insertion order: a sequence of buckets
\* [symbol, dets]; a detection is [symbol, element, sc, so, ec, eo], its
\* range running from boundary <<sc, so>> to <<ec, eo>>.
\* ------------------------------------------------------------------------
Detection(symbol, element, node, startOffset, endOffset) ==
  [symbol |-> symbol, element |-> element,
   sc |-> node, so |-> startOffset, ec |-> node, eo |-> endOffset]

\* detectSymbolsInText: the detections of one text node, left to right
detectSymbolsInText(nodes, textNode) ==
  LET ms      == Surviving(nodes[textNode].data)
      element == Parent(nodes, textNode)
  IN  IF element = NoNode THEN << >>
      ELSE [k \in 1..Len(ms) |->
              Detection(ms[k].symbol, element, textNode,
                        ms[k].index, ms[k].index + Len(ms[k].symbol))]

\* element.closest('.stockalert-overlay')
ClosestOverlay(nodes, id) ==
  \E a \in InclusiveAncestors(nodes, id) : nodes[a].cls = "stockalert-overlay"

\* scanNode without its test for already highlighted elements
SkipsElementNoMarker(nodes, id) ==
  \/ nodes[id].tag \in EXCLUDED_TAGS
  \/ nodes[id].cls = "stockalert-overlay"
  \/ ClosestOverlay(nodes, id)

\* scanNode testing for Markers only
SkipsElementMarkerOnly(nodes, id) ==
  nodes[id].cls = "stockalert-symbol"

\* the element tests at the head of scanNode
SkipsElement(nodes, id) ==
  \/ nodes[id].tag \in EXCLUDED_TAGS
  \/ nodes[id].cls = "stockalert-symbol"
  \/ nodes[id].cls = "stockalert-overlay"
  \/ ClosestOverlay(nodes, id)

RECURSIVE scanKids(_, _, _)
\* scanNode: the detections below node, in document order
scanNode(nodes, id) ==
  IF nodes[id].kind = "elem" /\ SkipsElement(nodes, id) THEN << >>
  ELSE IF nodes[id].kind = "text" THEN detectSymbolsInText(nodes, id)
  ELSE scanKids(nodes, nodes[id].kids, 1)
scanKids(nodes, kids, i) ==
  IF i > Len(kids) THEN << >>
  ELSE scanNode(nodes, kids[i]) \o scanKids(nodes, kids, i + 1)

\* a store that puts the detection at the head of its bucket
StoreAtHead(det, d) ==
  IF \E b \in 1..Len(det) : det[b].symbol = d.symbol
  THEN LET b == CHOOSE b \in 1..Len(det) : det[b].symbol = d.symbol
       IN  [det EXCEPT ![b].dets = <<d>> \o @]
  ELSE Append(det, [symbol |-> d.symbol, dets |-> <<d>>])

\* detectedSymbols.get(symbol).push(detected), the bucket made when missing
Store(det, d) ==
  IF \E b \in 1..Len(det) : det[b].symbol = d.symbol
  THEN LET b == CHOOSE b \in 1..Len(det) : det[b].symbol = d.symbol
       IN  [det EXCEPT ![b].dets = Append(@, d)]
  ELSE Append(det, [symbol |-> d.symbol, dets |-> <<d>>])

RECURSIVE StoreAll(_, _, _)
StoreAll(det, ds, i) ==
  IF i > Len(ds) THEN det ELSE StoreAll(Store(det, ds[i]), ds, i + 1)

\* scanDocument without detectedSymbols.clear()
scanDocumentNoClear(w) ==
  [w EXCEPT !.det = StoreAll(w.det, scanNode(w.nodes, Body), 1)]

\* scanDocument: the map is cleared and filled from document.body
scanDocument(w) ==
  [w EXCEPT !.det = StoreAll(<< >>, scanNode(w.nodes, Body), 1)]

\* ------------------------------------------------------------------------
\* SymbolDetector: highlighting
\* ------------------------------------------------------------------------
Marker(symbol, children) ==
  [Element("SPAN", "stockalert-symbol", children) EXCEPT !.symbol = symbol]

SetRange(det, b, k, c, s, e) ==
  [det EXCEPT ![b].dets[k] = [@ EXCEPT !.sc = c, !.so = s, !.ec = c, !.eo = e]]

RECURSIVE RemoveAll(_, _, _)
\* the children a range contains leave the tree, first to last
RemoveAll(w, ids, i) ==
  IF i > Len(ids) THEN w ELSE RemoveAll(RemoveNode(w, ids[i]), ids, i + 1)

\* range.surroundContents(span) on a range inside one text node: the text
\* is extracted, the node split at the range's start, the span put between
\* the halves, and the range made to select the span
SurroundText(w, b, k) ==
  LET d     == w.det[b].dets[k]
      n     == d.sc
      text  == SubSeq(w.nodes[n].data, d.so + 1, d.eo)
      w1    == IF d.so = d.eo THEN w
               ELSE ReplaceData(w, n, d.so, d.eo - d.so, << >>)
      p     == Parent(w.nodes, n)
      w2    == SplitText(w1, n, d.so)
      tail  == Len(w1.nodes) + 1
      span  == tail + 1
      clone == tail + 2
      w3    == [w2 EXCEPT !.nodes =
                  IF d.so = d.eo
                  THEN Append(@, Marker(d.symbol, << >>))
                  ELSE Append(Append(@, Marker(d.symbol, <<clone>>)),
                              TextNode(text))]
      at    == IndexOf(w3.nodes, p, tail)
      w4    == InsertAt(w3, p, at, span)
  IN  IF p = NoNode
      THEN w1   \* insertNode throws after the extraction; the catch skips
      ELSE [w4 EXCEPT !.det = SetRange(@, b, k, p, at, at + 1),
                      !.hl = Append(@, span)]

\* range.surroundContents(span) on a range between children of one
\* element: the contained children move into the span
SurroundChildren(w, b, k) ==
  LET d     == w.det[b].dets[k]
      p     == d.sc
      inner == SubSeq(w.nodes[p].kids, d.so + 1, d.eo)
      w1    == RemoveAll(w, inner, 1)
      span  == Len(w1.nodes) + 1
      w2    == [w1 EXCEPT !.nodes = Append(@, Marker(d.symbol, inner))]
      w3    == InsertAt(w2, p, d.so, span)
  IN  [w3 EXCEPT !.det = SetRange(@, b, k, p, d.so, d.so + 1),
                 !.hl = Append(@, span)]

\* highlightSymbol: the try block around surroundContents; a range whose
\* boundary points lie in different nodes partially contains a non-Text
\* node or none, and is left alone here (RangesInOneNode shows that no
\* reachable range is of that shape)
highlightSymbol(w, b, k) ==
  LET d == w.det[b].dets[k]
  IN  IF d.sc # d.ec THEN w
      ELSE IF w.nodes[d.sc].kind = "text" THEN SurroundText(w, b, k)
      ELSE SurroundChildren(w, b, k)

RECURSIVE highlightFrom(_, _, _)
\* detectedSymbols.forEach(detections => detections.forEach(highlightSymbol))
highlightFrom(w, b, k) ==
  IF b > Len(w.det) THEN w
  ELSE IF k > Len(w.det[b].dets) THEN highlightFrom(w, b + 1, 1)
  ELSE highlightFrom(highlightSymbol(w, b, k), b, k + 1)

highlightSymbols(w) == highlightFrom(w, 1, 1)

RECURSIVE removeFrom(_, _)
\* removeHighlights: each registered span gives way to a text node holding
\* its textContent; the registry is cleared
removeFrom(w, i) ==
  IF i > Len(w.hl) THEN [w EXCEPT !.hl = << >>]
  ELSE
    LET el   == w.hl[i]
        p    == Parent(w.nodes, el)
        at   == IndexOf(w.nodes, p, el)
        new  == Len(w.nodes) + 1
        w1   == [w EXCEPT !.nodes =
                   Append(@, TextNode(TextContent(w.nodes, el)))]
        w2   == InsertAt(RemoveNode(w1, el), p, at, new)
    IN  IF p = NoNode THEN removeFrom(w, i + 1) ELSE removeFrom(w2, i + 1)

\* removeHighlights taking each span out and putting no text in its place
removeHighlightsDropsText(w) == [RemoveAll(w, w.hl, 1) EXCEPT !.hl = << >>]

removeHighlights(w) == removeFrom(w, 1)

\* ------------------------------------------------------------------------
\* State of the content script
\* ------------------------------------------------------------------------
VARIABLES
  nodes,               \* the document
  host,                \* "stockalert.pro" or "other": window.location.hostname
  readyState,          \* document.readyState: "loading" or "complete"
  settings,            \* the stored settings [autoDetect, highlightSymbols]
  apiKey,              \* the apiKey entry of chrome.storage.local, NoKey
                       \* when there is none
  pc,                  \* init(): "start", "settings" (awaiting), "done"
  detector,            \* whether init created the SymbolDetector
  domListener,         \* scanAndHighlight listens for DOMContentLoaded
  listeners,           \* setupEventListeners has run
  detectedSymbols,     \* SymbolDetector.detectedSymbols
  highlightedElements, \* SymbolDetector.highlightedElements
  observing,           \* the MutationObserver is observing document.body
  timers,              \* pending setTimeout callbacks, oldest first
  cycles,              \* scanAndHighlight calls awaiting storage.getSettings
  overlay,             \* the module's overlay element, NoNode for null
  currentSymbol,       \* the module's currentSymbol, NoSymbol for null
  lookups,             \* checkWatchlistStatus calls in flight
  replaced,            \* the panel showOverlay opened over another token's
                       \* open overlay, until the next user input
  detEpoch,            \* which scanDocument call filled detectedSymbols
  windows,             \* qualifying batches delivered with no rescan pending
  rescans,             \* debounced rescans executed
  events,              \* [page, messages, clicks, calls]: inputs so far
  toggles,             \* handleWatchlistToggle calls in flight
  sent,                \* chrome.runtime.sendMessage calls, oldest first
  requests,            \* watchlist add and remove requests issued
  lastInput,           \* the last click or key press and what it met
  failed,              \* the overlay open when a toggle's add or remove
                       \* call failed, until the next click or key press
  geometry,            \* [x, y, w, h, W, H]: clientX and clientY of the
                       \* user's clicks, the size of the panel's bounding
                       \* rectangle, window.innerWidth and innerHeight
  saving,              \* storage.saveApiKey calls in flight, oldest first
  report,              \* what the last attempt to save an API key told
                       \* its caller: the popup's status line or the
                       \* background's response
  limiter,             \* a RateLimiter: [config, requests], requests the
                       \* Map from key to its RequestRecord list
  now,                 \* Date.now()
  grants,              \* the isAllowed calls that returned true since the
                       \* last reset of their key: [key, timestamp]
  returned,            \* the last call on the limiter and what it returned
  inbox,               \* the messages the background listener received,
                       \* oldest first: each with its handler's stage and
                       \* the sendResponse calls made for it
  pendingAlert,        \* the pendingAlertSymbol entry of
                       \* chrome.storage.local and the message that wrote it
  popup,               \* the popup: where its init() stands and the value
                       \* of alertSymbolInput
  opCount              \* chrome.storage.local operations the background
                       \* has issued so far

vars ==
  << nodes, host, readyState, settings, apiKey, pc, detector, domListener,
     listeners, detectedSymbols, highlightedElements, observing, timers,
     cycles, overlay, currentSymbol, lookups, replaced, detEpoch, windows,
     rescans, events, toggles, sent, requests, lastInput, failed, geometry,
     saving, report, limiter, now, grants, returned, inbox, pendingAlert,
     popup, opCount >>

\* the rate limiter and its clock
limiterVars == << limiter, now, grants, returned >>

\* the background listener, the popup and the storage entries they share
mailVars == << inbox, pendingAlert, popup, opCount >>

\* what no handler of the content script writes
pageVars ==
  << host, settings, apiKey, geometry, saving, report, limiterVars,
     mailVars >>
initVars == << pc, detector, domListener, listeners >>
overlayVars == << overlay, currentSymbol, lookups, replaced >>
toggleVars == << toggles, sent, requests >>
actionVars == << toggles, sent, requests, lastInput, failed >>

\* stored data that ExtensionStorageSchema.safeParse rejects
InvalidSettings == [invalid |-> TRUE]

\* no click or key press yet
NoInput ==
  [kind |-> "none", panel |-> NoNode, open |-> NoNode, symbol |-> << >>,
   label |-> "", quiet |-> FALSE, sent |-> 0, n |-> 0]

\* no apiKey entry, and the key stored when the page is loaded
NoKey == << >>
StoredKey == <<"s","k","_","0">>

NoReport ==
  [path |-> "none", input |-> << >>, ok |-> TRUE, text |-> "", n |-> 0]

\* no call made on the limiter yet
NoCall ==
  [op |-> "none", key |-> "", allowed |-> FALSE, remaining |-> 0, n |-> 0]

\* new RateLimiter(config): the config and an empty Map
EmptyMap == [k \in {} |-> << >>]
RateLimiter(config) == [config |-> config, requests |-> EmptyMap]

\* the global instance: 100 requests an hour
ApiMaxRequests == 100
ApiWindowMs == 3600000
apiRateLimiter ==
  RateLimiter([maxRequests |-> ApiMaxRequests, windowMs |-> ApiWindowMs])

\* no pendingAlertSymbol entry
NoPending == [symbol |-> << >>, from |-> 0]

\* the popup not open
ClosedPopup ==
  [pc |-> "closed", input |-> << >>, from |-> 0, n |-> 0,
   read |-> NoPending, shown |-> << >>]

\* no message received, no popup open, no pending symbol
MailIdle ==
  /\ inbox = << >>
  /\ pendingAlert = NoPending
  /\ popup = ClosedPopup
  /\ opCount = 0

\* the module's limiter as created at load, never called, and the
\* background idle
LimiterIdle ==
  /\ limiter = apiRateLimiter
  /\ now = 0
  /\ grants = << >>
  /\ returned = NoCall
  /\ MailIdle

NoSymbol == << >>

\* bounds of the model: inputs of each kind in one behaviour
MaxPageOps == 1
MaxMessages == 1
MaxClicks == 2
MaxCalls == 3

\* texts the page holds at load and appends later
InitTexts ==
  { <<"A","A","P","L"," ","T","H","E"," ","A","A","P","L">>,
    <<"M","S","F","T"," ","C","E","O"," ","B","R","K",".","A">>,
    <<"U","S","D"," ","x","A","B"," ","T","S","L","A">> }
PageAdds ==
  { [tag |-> "DIV",  text |-> <<"T","S","L","A">>],
    [tag |-> "CODE", text |-> <<"U","S","D"," ","A","A","P","L">>] }

\* the distance in px showOverlay keeps from the pointer and from the right
\* edge
OverlayOffset == 10

\* a click in the middle of a window with room for the panel on all sides
DefaultGeometry ==
  [x |-> 100, y |-> 100, w |-> 300, h |-> 200, W |-> 1000, H |-> 800]

\* setTimeout delays in milliseconds
FadeInDelay == 10
HideDelay == 100
RescanDelay == 500
ToastFadeInDelay == 10
ToastLife == 3000
ToastRemoveDelay == 100

Timer(kind) == [kind |-> kind]
\* a timer of showNotification: its callback closes over the toast
ToastTimer(kind, toast) == [kind |-> kind, node |-> toast]
Delay(t) ==
  CASE t.kind = "fadein"      -> FadeInDelay
    [] t.kind = "hide"        -> HideDelay
    [] t.kind = "rescan"      -> RescanDelay
    [] t.kind = "toastin"     -> ToastFadeInDelay
    [] t.kind = "toastout"    -> ToastLife
    [] t.kind = "toastremove" -> ToastRemoveDelay

\* a timer is due before every timer set later with no shorter delay
MayFire(i) ==
  /\ i \in 1..Len(timers)
  /\ \A j \in 1..(i - 1) : Delay(timers[j]) > Delay(timers[i])

RescanPending(tms) == \E i \in 1..Len(tms) : tms[i].kind = "rescan"

World ==
  [nodes |-> nodes, det |-> detectedSymbols, hl |-> highlightedElements,
   added |-> FALSE]

\* the observer's callback without its test for added nodes
ObserverCallbackAnyRecord(tms, wasObserving, added) ==
  IF wasObserving
  THEN /\ timers' = Append(tms, Timer("rescan"))
       /\ windows' = IF RescanPending(tms) THEN windows ELSE windows + 1
  ELSE /\ timers' = tms
       /\ windows' = windows

\* the observer's callback (setupMutationObserver): the records of the task
\* that just ran are delivered as one batch; a batch with a childList
\* record that has added nodes sets a 500 ms timer
ObserverCallback(tms, wasObserving, added) ==
  IF wasObserving /\ added
  THEN /\ timers' = Append(tms, Timer("rescan"))
       /\ windows' = IF RescanPending(tms) THEN windows ELSE windows + 1
  ELSE /\ timers' = tms
       /\ windows' = windows

\* the tree and the detector's collections after a task, and the observer's
\* reaction to what the task did to the tree
Commit(w, tms, wasObserving) ==
  /\ nodes' = w.nodes
  /\ detectedSymbols' = w.det
  /\ highlightedElements' = w.hl
  /\ ObserverCallback(tms, wasObserving, w.added)

InitialDocument(text) ==
  << Element("BODY", "", <<2>>), Element("P", "", <<3>>), TextNode(text) >>

Init ==
  /\ \E text \in InitTexts : nodes = InitialDocument(text)
  /\ host \in {"stockalert.pro", "other"}
  /\ geometry = DefaultGeometry
  /\ saving = << >>
  /\ report = NoReport
  /\ LimiterIdle
  /\ readyState \in {"loading", "complete"}
  /\ settings \in [autoDetect : BOOLEAN, highlightSymbols : BOOLEAN]
                  \cup {InvalidSettings}
  /\ apiKey \in {NoKey, StoredKey}
  /\ pc = "start"
  /\ detector = FALSE
  /\ domListener = FALSE
  /\ listeners = FALSE
  /\ detectedSymbols = << >>
  /\ highlightedElements = << >>
  /\ observing = FALSE
  /\ timers = << >>
  /\ cycles = << >>
  /\ overlay = NoNode
  /\ currentSymbol = NoSymbol
  /\ lookups = << >>
  /\ replaced = NoNode
  /\ detEpoch = 0
  /\ windows = 0
  /\ rescans = 0
  /\ events = [page |-> 0, messages |-> 0, clicks |-> 0, calls |-> 0]
  /\ toggles = << >>
  /\ sent = << >>
  /\ requests = << >>
  /\ lastInput = NoInput
  /\ failed = NoNode

\* ------------------------------------------------------------------------
\* Content script: init and scanAndHighlight
\* ------------------------------------------------------------------------

\* what getStorage returns when the stored data fails ExtensionStorageSchema
StorageDefaults == [autoDetect |-> TRUE, highlightSymbols |-> TRUE]

\* what init's catch block substitutes when storage.getSettings rejects
InitDefaults == [autoDetect |-> TRUE, highlightSymbols |-> TRUE]

\* storage.getSettings resolving: the stored settings, the defaults when
\* the stored data fails validation
getSettings(stored) ==
  IF stored = InvalidSettings THEN StorageDefaults ELSE stored

\* scanAndHighlight without its test for the detector
ScanAndHighlightCallUnguarded(hasDetector) ==
  /\ detectedSymbols' = scanDocument(World).det
  /\ detEpoch' = detEpoch + 1
  /\ cycles' = Append(cycles, [epoch |-> detEpoch + 1])

\* scanAndHighlight up to its await: without a detector it returns; with
\* one, scanDocument runs and the call waits for storage.getSettings
ScanAndHighlightCall(hasDetector) ==
  IF hasDetector
  THEN /\ detectedSymbols' = scanDocument(World).det
       /\ detEpoch' = detEpoch + 1
       /\ cycles' = Append(cycles, [epoch |-> detEpoch + 1])
  ELSE UNCHANGED << detectedSymbols, detEpoch, cycles >>

\* init up to its await: the hostname test
InitStart ==
  /\ pc = "start"
  /\ pc' = IF host = "stockalert.pro" THEN "done" ELSE "settings"
  /\ UNCHANGED << nodes, pageVars, readyState, detector, domListener,
                  listeners, detectedSymbols, highlightedElements,
                  observing, timers, cycles, overlayVars, actionVars,
                  detEpoch, windows, rescans, events >>

\* init after storage.getSettings settled (ok: resolved, otherwise the catch
\* substitutes the defaults)
InitSettings(ok) ==
  /\ pc = "settings"
  /\ pc' = "done"
  /\ LET autoDetect == IF ok THEN getSettings(settings).autoDetect
                       ELSE InitDefaults.autoDetect
     IN  IF ~autoDetect
         THEN UNCHANGED << detector, domListener, listeners, detectedSymbols,
                           detEpoch, cycles >>
         ELSE /\ detector' = TRUE
              /\ listeners' = TRUE
              /\ IF readyState = "loading"
                 THEN /\ domListener' = TRUE
                      /\ UNCHANGED << detectedSymbols, detEpoch, cycles >>
                 ELSE /\ domListener' = FALSE
                      /\ ScanAndHighlightCall(TRUE)
  /\ UNCHANGED << nodes, pageVars, readyState, highlightedElements, observing,
                  timers, overlayVars, actionVars, windows, rescans, events >>

\* the document finishes loading; the listener init added runs
DOMContentLoaded ==
  /\ readyState = "loading"
  /\ readyState' = "complete"
  /\ IF domListener
     THEN ScanAndHighlightCall(detector)
     ELSE UNCHANGED << detectedSymbols, detEpoch, cycles >>
  /\ UNCHANGED << nodes, pageVars, initVars, highlightedElements, observing,
                  timers, overlayVars, actionVars, windows, rescans, events >>

\* chrome.runtime.onMessage: RESCAN_PAGE
RescanPage ==
  /\ events.messages < MaxMessages
  /\ events' = [events EXCEPT !.messages = @ + 1]
  /\ ScanAndHighlightCall(detector)
  /\ UNCHANGED << nodes, pageVars, readyState, initVars, highlightedElements,
                  observing, timers, overlayVars, actionVars, windows, rescans >>

\* scanAndHighlight after storage.getSettings settled: highlightSymbols on
\* the detector's map unless the setting is off, then startObserving
ScanAndHighlightResume(c, ok) ==
  /\ c \in 1..Len(cycles)
  /\ cycles' = RemoveSeq(cycles, c)
  /\ LET highlightEnabled == IF ok THEN getSettings(settings).highlightSymbols
                             ELSE TRUE
         w == IF highlightEnabled THEN highlightSymbols(World) ELSE World
     IN  Commit(w, timers, observing)
  /\ observing' = TRUE
  /\ UNCHANGED << pageVars, readyState, initVars, overlayVars, actionVars, detEpoch,
                  rescans, events >>

\* the page appends an element holding one text node to document.body
PageAppend(tagName, text) ==
  /\ events.page < MaxPageOps
  /\ events' = [events EXCEPT !.page = @ + 1]
  /\ LET el == Len(nodes) + 1
         w  == [World EXCEPT !.nodes =
                  Append(Append(@, Element(tagName, "", <<el + 1>>)),
                         TextNode(text))]
     IN  Commit(InsertAt(w, Body, Len(nodes[Body].kids), el),
                timers, observing)
  /\ UNCHANGED << pageVars, readyState, initVars, observing, cycles,
                  overlayVars, actionVars, detEpoch, rescans >>

\* the elements of the page itself directly below document.body
PageElements ==
  { id \in SeqRange(nodes[Body].kids) :
      nodes[id].kind = "elem" /\ nodes[id].cls = "" }

\* the page removes one of its elements from document.body: the batch has
\* removed nodes only
PageRemove(el) ==
  /\ events.page < MaxPageOps
  /\ el \in PageElements
  /\ events' = [events EXCEPT !.page = @ + 1]
  /\ Commit(RemoveNode(World, el), timers, observing)
  /\ UNCHANGED << pageVars, readyState, initVars, observing, cycles,
                  overlayVars, actionVars, detEpoch, rescans >>

\* the page appends to document.body an element that holds a text node
\* and a second element, which holds an EM element with a text node
NestedAdds ==
  { [outer |-> "DIV", inner |-> "CODE"], [outer |-> "PRE", inner |-> "SPAN"] }
NestedText == <<"T","S","L","A">>

PageAppendIn(outer, inner, text) ==
  /\ events.page < MaxPageOps
  /\ events' = [events EXCEPT !.page = @ + 1]
  /\ LET el == Len(nodes) + 1
         w  == [World EXCEPT !.nodes =
                  @ \o << Element(outer, "", <<el + 1, el + 2>>),
                          TextNode(text),
                          Element(inner, "", <<el + 3>>),
                          Element("EM", "", <<el + 4>>),
                          TextNode(text) >>]
     IN  Commit(InsertAt(w, Body, Len(nodes[Body].kids), el),
                timers, observing)
  /\ UNCHANGED << pageVars, readyState, initVars, observing, cycles,
                  overlayVars, actionVars, detEpoch, rescans >>

\* the text the page writes into a text node
NewData == <<"N","V","D","A">>

PageTexts ==
  { id \in 1..Len(nodes) : nodes[id].kind = "text" /\ Connected(nodes, id) }

\* the page assigns to the data of a text node below document.body: a
\* characterData record, which the observer (childList, subtree) is not
\* given
PageSetData(n) ==
  /\ events.page < MaxPageOps
  /\ n \in PageTexts
  /\ events' = [events EXCEPT !.page = @ + 1]
  /\ LET w == ReplaceData(World, n, 0, Len(nodes[n].data), NewData)
     IN  nodes' = w.nodes /\ detectedSymbols' = w.det
  /\ UNCHANGED << pageVars, readyState, initVars, highlightedElements,
                  observing, timers, cycles, overlayVars, actionVars,
                  detEpoch, windows, rescans >>

\* the page sets the style attribute of one of its elements: an attributes
\* record, which the observer is not given
PageSetStyle(el) ==
  /\ events.page < MaxPageOps
  /\ el \in PageElements
  /\ nodes[el].opacity = ""
  /\ events' = [events EXCEPT !.page = @ + 1]
  /\ nodes' = [nodes EXCEPT ![el].opacity = "1"]
  /\ UNCHANGED << pageVars, readyState, initVars, detectedSymbols,
                  highlightedElements, observing, timers, cycles,
                  overlayVars, actionVars, detEpoch, windows, rescans >>

\* ------------------------------------------------------------------------
\* Timers
\* ------------------------------------------------------------------------

\* the callback setupMutationObserver hands to setTimeout
RescanTimer(i) ==
  /\ MayFire(i)
  /\ timers[i].kind = "rescan"
  /\ Commit(highlightSymbols(scanDocument(World)), RemoveSeq(timers, i),
            observing)
  /\ detEpoch' = detEpoch + 1
  /\ rescans' = rescans + 1
  /\ UNCHANGED << pageVars, readyState, initVars, observing, cycles,
                  overlayVars, actionVars, events >>

\* the callback hideOverlay hands to setTimeout
HideTimer(i) ==
  /\ MayFire(i)
  /\ timers[i].kind = "hide"
  /\ IF overlay # NoNode
     THEN /\ Commit(RemoveNode(World, overlay), RemoveSeq(timers, i),
                    observing)
          /\ overlay' = NoNode
          /\ currentSymbol' = NoSymbol
     ELSE /\ timers' = RemoveSeq(timers, i)
          /\ UNCHANGED << nodes, detectedSymbols, highlightedElements,
                          windows, overlay, currentSymbol >>
  /\ UNCHANGED << pageVars, readyState, initVars, observing, cycles, lookups,
                  replaced, detEpoch, rescans, events, actionVars >>

\* the callback showOverlay hands to setTimeout
FadeInTimer(i) ==
  /\ MayFire(i)
  /\ timers[i].kind = "fadein"
  /\ timers' = RemoveSeq(timers, i)
  /\ nodes' = IF overlay # NoNode
              THEN [nodes EXCEPT ![overlay].opacity = "1"]
              ELSE nodes
  /\ UNCHANGED << pageVars, readyState, initVars, detectedSymbols,
                  highlightedElements, observing, cycles, overlayVars, actionVars,
                  detEpoch, windows, rescans, events >>

\* the first callback showNotification hands to setTimeout
ToastFadeInTimer(i) ==
  /\ MayFire(i)
  /\ timers[i].kind = "toastin"
  /\ timers' = RemoveSeq(timers, i)
  /\ nodes' = [nodes EXCEPT ![timers[i].node].opacity = "1"]
  /\ UNCHANGED << pageVars, readyState, initVars, detectedSymbols,
                  highlightedElements, observing, cycles, overlayVars,
                  actionVars, detEpoch, windows, rescans, events >>

\* the second: the toast fades and a third timer is set
ToastLifeTimer(i) ==
  /\ MayFire(i)
  /\ timers[i].kind = "toastout"
  /\ timers' = Append(RemoveSeq(timers, i),
                      ToastTimer("toastremove", timers[i].node))
  /\ nodes' = [nodes EXCEPT ![timers[i].node].opacity = "0"]
  /\ UNCHANGED << pageVars, readyState, initVars, detectedSymbols,
                  highlightedElements, observing, cycles, overlayVars,
                  actionVars, detEpoch, windows, rescans, events >>

\* the third: toast.remove()
ToastRemoveTimer(i) ==
  /\ MayFire(i)
  /\ timers[i].kind = "toastremove"
  /\ Commit(RemoveNode(World, timers[i].node), RemoveSeq(timers, i),
            observing)
  /\ UNCHANGED << pageVars, readyState, initVars, observing, cycles,
                  overlayVars, actionVars, detEpoch, rescans, events >>

\* ------------------------------------------------------------------------
\* Overlay
\* ------------------------------------------------------------------------
AddLabel == "Add to Watchlist"
RemoveLabel == "Remove from Watchlist"

\* createOverlay(symbol, true)
PanelInWatchlist(symbol, heading) ==
  [Element("DIV", "stockalert-overlay", <<heading>>) EXCEPT
     !.symbol = symbol, !.opacity = "0",
     !.btn = [label |-> RemoveLabel, symbol |-> symbol, inWatchlist |-> TRUE,
              known |-> FALSE]]

\* createOverlay(symbol, false): the panel, its heading the symbol
Panel(symbol, heading) ==
  [Element("DIV", "stockalert-overlay", <<heading>>) EXCEPT
     !.symbol = symbol, !.opacity = "0",
     !.btn = [label |-> AddLabel, symbol |-> symbol, inWatchlist |-> FALSE,
              known |-> FALSE]]

\* hideOverlay setting the opacity and no timer
hideOverlayNoTimer(ns, tms) ==
  IF overlay # NoNode
  THEN [nodes |-> [ns EXCEPT ![overlay].opacity = "0"], timers |-> tms]
  ELSE [nodes |-> ns, timers |-> tms]

\* hideOverlay: [nodes, timers] after the call
hideOverlay(ns, tms) ==
  IF overlay # NoNode
  THEN [nodes |-> [ns EXCEPT ![overlay].opacity = "0"],
        timers |-> Append(tms, Timer("hide"))]
  ELSE [nodes |-> ns, timers |-> tms]

HidePending(tms) == \E i \in 1..Len(tms) : tms[i].kind = "hide"

\* a click or key press: the panel it is aimed at and what that panel
\* showed, the overlay open at the time, whether anything was about to
\* close it, and the messages sent before
Input(kind, panel) ==
  [kind   |-> kind,
   panel  |-> panel,
   open   |-> overlay,
   symbol |-> IF panel = NoNode THEN << >> ELSE nodes[panel].symbol,
   label  |-> IF panel = NoNode THEN "" ELSE nodes[panel].btn.label,
   quiet  |-> ~HidePending(timers) /\ toggles = << >>,
   sent   |-> Len(sent),
   n      |-> events.clicks + 1]

Markers ==
  { id \in 1..Len(nodes) :
      nodes[id].cls = "stockalert-symbol" /\ Connected(nodes, id) }

Panels ==
  { id \in 1..Len(nodes) :
      nodes[id].cls = "stockalert-overlay" /\ Connected(nodes, id) }

\* <<left, top>> as showOverlay computes them from the pointer, the
\* panel's bounding rectangle and the window's inner size
OverlayPosition(g) ==
  LET left == g.x + OverlayOffset
      top  == g.y + OverlayOffset
  IN  << IF left + g.w > g.W THEN g.W - g.w - OverlayOffset ELSE left,
         IF top + g.h > g.H THEN g.y - g.h - OverlayOffset ELSE top >>

\* handleSymbolClick on a Marker: showOverlay(symbol, x, y) up to the first
\* await of checkWatchlistStatus
showOverlay(m) ==
  LET symbol == nodes[m].symbol
      h      == IF overlay # NoNode THEN hideOverlay(nodes, timers)
                ELSE [nodes |-> nodes, timers |-> timers]
      panel  == Len(nodes) + 1
      w      == [World EXCEPT !.nodes =
                   Append(Append(h.nodes,
                                 [Panel(symbol, panel + 1) EXCEPT
                                    !.place = OverlayPosition(geometry)]),
                          TextNode(symbol))]
  IN  /\ currentSymbol' = symbol
      /\ overlay' = panel
      /\ Commit(InsertAt(w, Body, Len(nodes[Body].kids), panel),
                Append(h.timers, Timer("fadein")), observing)
      /\ lookups' = Append(lookups, [symbol |-> symbol, stage |-> "client"])
      /\ replaced' = IF overlay # NoNode /\ currentSymbol # symbol
                     THEN panel ELSE NoNode

ClickMarker(m) ==
  /\ listeners
  /\ events.clicks < MaxClicks
  /\ m \in Markers
  /\ nodes[m].symbol # NoSymbol
  /\ events' = [events EXCEPT !.clicks = @ + 1]
  /\ showOverlay(m)
  /\ lastInput' = Input("marker", NoNode)
  /\ failed' = NoNode
  /\ UNCHANGED << pageVars, readyState, initVars, observing, cycles,
                  detEpoch, rescans, toggleVars >>

\* what a call of hideOverlay leaves, nothing else changing
HideOverlayStep ==
  /\ LET h == hideOverlay(nodes, timers)
     IN  nodes' = h.nodes /\ timers' = h.timers
  /\ replaced' = NoNode
  /\ failed' = NoNode
  /\ UNCHANGED << pageVars, readyState, initVars, detectedSymbols,
                  highlightedElements, observing, cycles, overlay,
                  currentSymbol, lookups, detEpoch, windows, rescans,
                  toggleVars >>

\* handleSymbolClick on a target that is no Marker and outside the overlay
ClickOutside ==
  /\ listeners
  /\ events.clicks < MaxClicks
  /\ overlay # NoNode
  /\ events' = [events EXCEPT !.clicks = @ + 1]
  /\ lastInput' = Input("outside", overlay)
  /\ HideOverlayStep

\* handleKeydown: Escape
KeyEscape ==
  /\ listeners
  /\ events.clicks < MaxClicks
  /\ overlay # NoNode
  /\ events' = [events EXCEPT !.clicks = @ + 1]
  /\ lastInput' = Input("escape", overlay)
  /\ HideOverlayStep

\* handleSymbolClick (capture phase) for a target inside panel p, which
\* is no Marker: hideOverlay unless the overlay contains the target
CaptureClick(p) ==
  IF overlay # NoNode /\ p # overlay
  THEN hideOverlay(nodes, timers)
  ELSE [nodes |-> nodes, timers |-> timers]

\* a click on a panel's close button: handleSymbolClick, then the
\* button's listener calls hideOverlay
ClickClose(p) ==
  /\ listeners
  /\ events.clicks < MaxClicks
  /\ p \in Panels
  /\ events' = [events EXCEPT !.clicks = @ + 1]
  /\ lastInput' = Input("close", p)
  /\ LET c == CaptureClick(p)
         h == hideOverlay(c.nodes, c.timers)
     IN  nodes' = h.nodes /\ timers' = h.timers
  /\ replaced' = NoNode
  /\ failed' = NoNode
  /\ UNCHANGED << pageVars, readyState, initVars, detectedSymbols,
                  highlightedElements, observing, cycles, overlay,
                  currentSymbol, lookups, detEpoch, windows, rescans,
                  toggleVars >>

\* a click inside a panel that is on none of its buttons: handleSymbolClick
\* alone
ClickInside(p) ==
  /\ listeners
  /\ events.clicks < MaxClicks
  /\ p \in Panels
  /\ events' = [events EXCEPT !.clicks = @ + 1]
  /\ lastInput' = Input("inside", p)
  /\ LET c == CaptureClick(p)
     IN  nodes' = c.nodes /\ timers' = c.timers
  /\ replaced' = NoNode
  /\ failed' = NoNode
  /\ UNCHANGED << pageVars, readyState, initVars, detectedSymbols,
                  highlightedElements, observing, cycles, overlay,
                  currentSymbol, lookups, detEpoch, windows, rescans,
                  toggleVars >>

\* the message handleCreateAlert sends
OpenAlertModal(symbol) ==
  [type |-> "OPEN_ALERT_MODAL", symbol |-> symbol, status |-> "pending"]

\* handleCreateAlert without its hideOverlay call
handleCreateAlertStaysOpen(symbol, ns, tms) ==
  [sent |-> Append(sent, OpenAlertModal(symbol)),
   nodes |-> ns, timers |-> tms]

\* handleCreateAlert(symbol): sendMessage, not awaited, then hideOverlay
handleCreateAlert(symbol, ns, tms) ==
  [sent |-> Append(sent, OpenAlertModal(symbol)),
   nodes |-> hideOverlay(ns, tms).nodes,
   timers |-> hideOverlay(ns, tms).timers]

\* a click on a panel's create-alert button: handleSymbolClick, then the
\* listener createOverlay bound to the panel's symbol
ClickCreateAlert(p) ==
  /\ listeners
  /\ events.clicks < MaxClicks
  /\ p \in Panels
  /\ events' = [events EXCEPT !.clicks = @ + 1]
  /\ lastInput' = Input("create", p)
  /\ LET c == CaptureClick(p)
         h == handleCreateAlert(nodes[p].symbol, c.nodes, c.timers)
     IN  nodes' = h.nodes /\ timers' = h.timers /\ sent' = h.sent
  /\ replaced' = NoNode
  /\ failed' = NoNode
  /\ UNCHANGED << pageVars, readyState, initVars, detectedSymbols,
                  highlightedElements, observing, cycles, overlay,
                  currentSymbol, lookups, detEpoch, windows, rescans,
                  toggles, requests >>

\* the promise of chrome.runtime.sendMessage settles; nobody holds it
AlertReply(m, ok) ==
  /\ m \in 1..Len(sent)
  /\ sent[m].status = "pending"
  /\ sent' = [sent EXCEPT ![m].status =
                IF ok THEN "delivered" ELSE "rejected"]
  /\ UNCHANGED << nodes, pageVars, readyState, initVars, detectedSymbols,
                  highlightedElements, observing, timers, cycles,
                  overlayVars, detEpoch, windows, rescans, events, toggles,
                  requests, lastInput, failed >>

\* checkWatchlistStatus after createApiClient settled: got is "client",
\* "null" (no key stored) or "error" (the storage read failed)
LookupClient(l, got) ==
  /\ l \in 1..Len(lookups)
  /\ lookups[l].stage = "client"
  /\ got \in {IF apiKey # NoKey THEN "client" ELSE "null", "error"}
  /\ lookups' = IF got = "client" /\ overlay # NoNode
                THEN [lookups EXCEPT ![l].stage = "query"]
                ELSE RemoveSeq(lookups, l)
  /\ UNCHANGED << nodes, pageVars, readyState, initVars, detectedSymbols,
                  highlightedElements, observing, timers, cycles, overlay,
                  currentSymbol, replaced, detEpoch, windows, rescans,
                  events, actionVars >>

\* the label changed and the button not replaced: the listener createOverlay
\* added stays
KnownBtnOldListener(symbol, inWatchlist) ==
  [label |-> IF inWatchlist THEN RemoveLabel ELSE AddLabel,
   symbol |-> symbol, inWatchlist |-> FALSE, known |-> TRUE]

\* the button checkWatchlistStatus installs: its label, and the arguments
\* its click listener hands to handleWatchlistToggle
KnownBtn(symbol, inWatchlist) ==
  [label |-> IF inWatchlist THEN RemoveLabel ELSE AddLabel,
   symbol |-> symbol, inWatchlist |-> inWatchlist, known |-> TRUE]

\* checkWatchlistStatus without its currentSymbol === symbol test
AppliesResultAnyToken(symbol) == overlay # NoNode

\* whether checkWatchlistStatus applies a result for symbol
AppliesResult(symbol) == overlay # NoNode /\ currentSymbol = symbol

\* checkWatchlistStatus after apiClient.isInWatchlist settled: answer is
\* "yes", "no" or "error" (the catch)
LookupResult(l, answer) ==
  /\ l \in 1..Len(lookups)
  /\ lookups[l].stage = "query"
  /\ answer \in {"yes", "no", "error"}
  /\ lookups' = RemoveSeq(lookups, l)
  /\ nodes' = IF answer # "error" /\ AppliesResult(lookups[l].symbol)
              THEN [nodes EXCEPT ![overlay].btn = 
                      KnownBtn(lookups[l].symbol, answer = "yes")]
              ELSE nodes
  /\ UNCHANGED << pageVars, readyState, initVars, detectedSymbols,
                  highlightedElements, observing, timers, cycles, overlay,
                  currentSymbol, replaced, detEpoch, windows, rescans,
                  events, actionVars >>

\* ------------------------------------------------------------------------
\* Watchlist toggle and notifications
\* ------------------------------------------------------------------------
AddedText ==
  << " ","a","d","d","e","d"," ","t","o"," ","w","a","t","c","h","l","i",
     "s","t" >>
RemovedText ==
  << " ","r","e","m","o","v","e","d"," ","f","r","o","m"," ","w","a","t",
     "c","h","l","i","s","t" >>
ConfigureText ==
  << "P","l","e","a","s","e"," ","c","o","n","f","i","g","u","r","e"," ",
     "A","P","I"," ","k","e","y"," ","i","n"," ","e","x","t","e","n","s",
     "i","o","n"," ","s","e","t","t","i","n","g","s" >>
\* the error.message the catch block shows: that of the StockAlertApiError
\* request() throws for a status 500 reply with no envelope and no text
ErrorText ==
  << "H","T","T","P"," ","5","0","0",":"," " >>

\* the error.message the catch block shows when createApiClient's read of
\* chrome.storage.local rejects: a text of the browser's, taken here to
\* hold no token
StorageErrorText == << "s","t","o","r","a","g","e"," ","e","r","r","o","r" >>

\* showNotification(message, type): the toast appended to document.body
\* and its two timers; [w, timers] after the call
showNotification(w, tms, message, type) ==
  LET toast == Len(w.nodes) + 1
      w1    == [w EXCEPT !.nodes =
                  Append(Append(@, [Element("DIV", "", <<toast + 1>>) EXCEPT
                                      !.opacity = "0", !.toast = type]),
                         TextNode(message))]
  IN  [w |-> InsertAt(w1, Body, Len(w.nodes[Body].kids), toast),
       timers |-> tms \o << ToastTimer("toastin", toast),
                            ToastTimer("toastout", toast) >>]

Toasts ==
  { id \in 1..Len(nodes) : nodes[id].toast # "" /\ Connected(nodes, id) }

\* a click on a panel's watchlist button: handleSymbolClick, then the
\* button's listener; handleWatchlistToggle up to its first await
ClickWatchlist(p) ==
  /\ listeners
  /\ events.clicks < MaxClicks
  /\ p \in Panels
  /\ events' = [events EXCEPT !.clicks = @ + 1]
  /\ lastInput' = Input("watchlist", p)
  /\ LET c == CaptureClick(p)
     IN  nodes' = c.nodes /\ timers' = c.timers
  /\ toggles' = Append(toggles,
       [symbol |-> nodes[p].btn.symbol,
        inWatchlist |-> nodes[p].btn.inWatchlist,
        label |-> nodes[p].btn.label, stage |-> "client", panel |-> p,
        n |-> events.clicks + 1])
  /\ replaced' = NoNode
  /\ failed' = NoNode
  /\ UNCHANGED << pageVars, readyState, initVars, detectedSymbols,
                  highlightedElements, observing, cycles, overlay,
                  currentSymbol, lookups, detEpoch, windows, rescans,
                  sent, requests >>

\* the end of handleWatchlistToggle's try block without its test of
\* currentSymbol
ToggleEndAnyToken(symbol, r) ==
  [w |-> [r.w EXCEPT !.nodes = hideOverlay(r.w.nodes, r.timers).nodes],
   timers |-> hideOverlay(r.w.nodes, r.timers).timers]

\* the end of handleWatchlistToggle's try block: hideOverlay if the
\* toggle's symbol is still the current one; [w, timers] after it
ToggleEnd(symbol, r) ==
  IF currentSymbol = symbol
  THEN [w |-> [r.w EXCEPT !.nodes = hideOverlay(r.w.nodes, r.timers).nodes],
        timers |-> hideOverlay(r.w.nodes, r.timers).timers]
  ELSE r

\* handleWatchlistToggle after createApiClient settled: without a client
\* the toast asks for the key; with one, listWatchlist or addToWatchlist
\* is called; a failed storage read ends in the catch block
ToggleClient(t, got) ==
  /\ t \in 1..Len(toggles)
  /\ toggles[t].stage = "client"
  /\ got \in {IF apiKey # NoKey THEN "client" ELSE "null", "error"}
  /\ IF got = "client"
     THEN /\ toggles' = [toggles EXCEPT ![t].stage =
                           IF toggles[t].inWatchlist THEN "list" ELSE "add"]
          /\ requests' = IF toggles[t].inWatchlist THEN requests
                         ELSE Append(requests,
                                [op |-> "add", symbol |-> toggles[t].symbol,
                                 label |-> toggles[t].label, panel |-> toggles[t].panel,
                                 n |-> toggles[t].n])
          /\ UNCHANGED << nodes, detectedSymbols, highlightedElements,
                          timers, windows >>
     ELSE /\ toggles' = RemoveSeq(toggles, t)
          /\ requests' = requests
          /\ LET r == showNotification(World, timers,
                        IF got = "null" THEN ConfigureText
                        ELSE StorageErrorText,
                        "error")
             IN  Commit(r.w, r.timers, observing)
  /\ UNCHANGED << pageVars, readyState, initVars, observing, cycles,
                  overlayVars, detEpoch, rescans, events, sent, lastInput,
                  failed >>

\* after listWatchlist settled: the item of the symbol is found and
\* removeFromWatchlist is called, or it is missing and the try block ends,
\* or the call failed and the catch block shows the toast
ToggleList(t, res) ==
  /\ t \in 1..Len(toggles)
  /\ toggles[t].stage = "list"
  /\ res \in {"found", "missing", "error"}
  /\ IF res = "found"
     THEN /\ toggles' = [toggles EXCEPT ![t].stage = "remove"]
          /\ requests' = Append(requests,
                           [op |-> "remove", symbol |-> toggles[t].symbol,
                            label |-> toggles[t].label, panel |-> toggles[t].panel,
                            n |-> toggles[t].n])
          /\ UNCHANGED << nodes, detectedSymbols, highlightedElements,
                          timers, windows >>
     ELSE /\ toggles' = RemoveSeq(toggles, t)
          /\ requests' = requests
          /\ LET r == IF res = "missing"
                      THEN ToggleEnd(toggles[t].symbol,
                                     [w |-> World, timers |-> timers])
                      ELSE showNotification(World, timers, ErrorText,
                                            "error")
             IN  Commit(r.w, r.timers, observing)
  /\ UNCHANGED << pageVars, readyState, initVars, observing, cycles,
                  overlayVars, detEpoch, rescans, events, sent, lastInput,
                  failed >>

\* after addToWatchlist or removeFromWatchlist settled: the success toast
\* and the end of the try block, or the catch block's toast
ToggleDone(t, ok) ==
  /\ t \in 1..Len(toggles)
  /\ toggles[t].stage \in {"add", "remove"}
  /\ toggles' = RemoveSeq(toggles, t)
  /\ LET symbol == toggles[t].symbol
         r == IF ok
              THEN ToggleEnd(symbol,
                     showNotification(World, timers,
                       symbol \o (IF toggles[t].stage = "add"
                                  THEN AddedText ELSE RemovedText),
                       "success"))
              ELSE showNotification(World, timers, ErrorText, "error")
     IN  Commit(r.w, r.timers, observing)
  /\ failed' = IF ~ok /\ overlay # NoNode /\ toggles[t].panel = overlay
               THEN overlay ELSE failed
  /\ UNCHANGED << pageVars, readyState, initVars, observing, cycles,
                  overlayVars, detEpoch, rescans, events, sent, requests,
                  lastInput >>

\* ------------------------------------------------------------------------
\* The content script
\* ------------------------------------------------------------------------
ScanStep ==
  \/ InitStart
  \/ \E ok \in BOOLEAN : InitSettings(ok)
  \/ DOMContentLoaded
  \/ RescanPage
  \/ \E c \in 1..Len(cycles), ok \in BOOLEAN : ScanAndHighlightResume(c, ok)
  \/ \E a \in PageAdds : PageAppend(a.tag, a.text)
  \/ \E el \in PageElements : PageRemove(el)
  \/ \E i \in 1..Len(timers) : RescanTimer(i)

OverlayStep ==
  \/ \E i \in 1..Len(timers) : RescanTimer(i)
  \/ \E i \in 1..Len(timers) : HideTimer(i)
  \/ \E i \in 1..Len(timers) : FadeInTimer(i)
  \/ \E m \in Markers : ClickMarker(m)
  \/ ClickOutside
  \/ KeyEscape
  \/ \E p \in Panels : ClickClose(p)
  \/ \E p \in Panels : ClickInside(p)
  \/ \E p \in Panels : ClickCreateAlert(p)
  \/ \E m \in 1..Len(sent), ok \in BOOLEAN : AlertReply(m, ok)
  \/ \E l \in 1..Len(lookups), got \in {"client", "null", "error"} :
       LookupClient(l, got)
  \/ \E l \in 1..Len(lookups), answer \in {"yes", "no", "error"} :
       LookupResult(l, answer)

ToggleStep ==
  \/ \E i \in 1..Len(timers) : RescanTimer(i)
  \/ \E i \in 1..Len(timers) : HideTimer(i)
  \/ \E i \in 1..Len(timers) : FadeInTimer(i)
  \/ \E i \in 1..Len(timers) : ToastFadeInTimer(i)
  \/ \E i \in 1..Len(timers) : ToastLifeTimer(i)
  \/ \E i \in 1..Len(timers) : ToastRemoveTimer(i)
  \/ \E m \in Markers : ClickMarker(m)
  \/ \E p \in Panels : ClickWatchlist(p)
  \/ \E l \in 1..Len(lookups), got \in {"client", "null", "error"} :
       LookupClient(l, got)
  \/ \E l \in 1..Len(lookups), answer \in {"yes", "no", "error"} :
       LookupResult(l, answer)
  \/ \E t \in 1..Len(toggles), got \in {"client", "null", "error"} :
       ToggleClient(t, got)
  \/ \E t \in 1..Len(toggles), res \in {"found", "missing", "error"} :
       ToggleList(t, res)
  \/ \E t \in 1..Len(toggles), ok \in BOOLEAN : ToggleDone(t, ok)

Next ==
  \/ ScanStep
  \/ OverlayStep
  \/ ToggleStep
  \/ \E n \in PageTexts : PageSetData(n)
  \/ \E el \in PageElements : PageSetStyle(el)

\* the content script from the moment it is injected
Spec == Init /\ [][Next]_vars

\* the scanning side alone: no user input reaches the overlay
InitScan == Init /\ apiKey = StoredKey

SpecScan == InitScan /\ [][ScanStep]_vars

\* the page once init and the first scanAndHighlight have run to the end
\* undisturbed, highlighting on
Loaded(text) ==
  highlightSymbols(scanDocument(
    [nodes |-> InitialDocument(text), det |-> << >>, hl |-> << >>,
     added |-> FALSE]))

InitOverlayAt(geometries) ==
  /\ \E text \in InitTexts :
       /\ nodes = Loaded(text).nodes
       /\ detectedSymbols = Loaded(text).det
       /\ highlightedElements = Loaded(text).hl
  /\ host = "other"
  /\ geometry \in geometries
  /\ saving = << >>
  /\ report = NoReport
  /\ LimiterIdle
  /\ readyState = "complete"
  /\ settings = [autoDetect |-> TRUE, highlightSymbols |-> TRUE]
  /\ apiKey \in {NoKey, StoredKey}
  /\ pc = "done"
  /\ detector = TRUE
  /\ domListener = FALSE
  /\ listeners = TRUE
  /\ observing = TRUE
  /\ timers = << >>
  /\ cycles = << >>
  /\ overlay = NoNode
  /\ currentSymbol = NoSymbol
  /\ lookups = << >>
  /\ replaced = NoNode
  /\ detEpoch = 1
  /\ windows = 0
  /\ rescans = 0
  /\ events = [page |-> 0, messages |-> 0, clicks |-> 0, calls |-> 0]
  /\ toggles = << >>
  /\ sent = << >>
  /\ requests = << >>
  /\ lastInput = NoInput
  /\ failed = NoNode

InitOverlay == InitOverlayAt({DefaultGeometry})

\* the overlay side alone, on a loaded page
SpecOverlay == InitOverlay /\ [][OverlayStep]_vars

\* the watchlist toggle on a loaded page with two tokens: the user clicks
\* Markers and watchlist buttons only
ToggleText ==
  <<"M","S","F","T"," ","C","E","O"," ","B","R","K",".","A">>

InitToggle == InitOverlay /\ nodes = Loaded(ToggleText).nodes

SpecToggle == InitToggle /\ [][ToggleStep]_vars

\* the tree of InitToggle once the user has clicked the Marker of symbol,
\* the panel has faded in and checkWatchlistStatus has answered that the
\* symbol is not in the watchlist
OpenedNodes(symbol) ==
  LET ns    == Loaded(ToggleText).nodes
      panel == Len(ns) + 1
      w     == [nodes |-> Append(Append(ns,
                            [Panel(symbol, panel + 1) EXCEPT
                               !.place = OverlayPosition(DefaultGeometry),
                               !.opacity = "1",
                               !.btn = KnownBtn(symbol, FALSE)]),
                          TextNode(symbol)),
                det |-> << >>, hl |-> << >>, added |-> FALSE]
  IN  InsertAt(w, Body, Len(ns[Body].kids), panel).nodes

SwitchSymbol == <<"M","S","F","T">>

\* what the content script holds in that state; the rescan timer the
\* panel's insertion set is still pending
OpenedState ==
  /\ nodes = OpenedNodes(SwitchSymbol)
  /\ detectedSymbols = Loaded(ToggleText).det
  /\ highlightedElements = Loaded(ToggleText).hl
  /\ host = "other"
  /\ settings = [autoDetect |-> TRUE, highlightSymbols |-> TRUE]
  /\ apiKey = StoredKey
  /\ geometry = DefaultGeometry
  /\ saving = << >>
  /\ report = NoReport
  /\ LimiterIdle
  /\ readyState = "complete"
  /\ pc = "done"
  /\ detector = TRUE
  /\ domListener = FALSE
  /\ listeners = TRUE
  /\ observing = TRUE
  /\ timers = << Timer("rescan") >>
  /\ cycles = << >>
  /\ overlay = Len(Loaded(ToggleText).nodes) + 1
  /\ currentSymbol = SwitchSymbol
  /\ lookups = << >>
  /\ replaced = NoNode
  /\ detEpoch = 1
  /\ windows = 1
  /\ rescans = 0
  /\ toggles = << >>
  /\ sent = << >>
  /\ requests = << >>
  /\ failed = NoNode

\* the user switching tokens while a toggle is in flight: from OpenedState,
\* events counting the inputs made from there on
InitSwitch ==
  /\ OpenedState
  /\ events = [page |-> 0, messages |-> 0, clicks |-> 0, calls |-> 0]
  /\ lastInput = NoInput

SwitchStep ==
  \/ \E i \in 1..Len(timers) : HideTimer(i)
  \/ \E i \in 1..Len(timers) : FadeInTimer(i)
  \/ \E m \in Markers : ClickMarker(m)
  \/ \E p \in Panels : ClickWatchlist(p)
  \/ \E l \in 1..Len(lookups), got \in {"client", "null", "error"} :
       LookupClient(l, got)
  \/ \E l \in 1..Len(lookups), answer \in {"yes", "no", "error"} :
       LookupResult(l, answer)
  \/ \E t \in 1..Len(toggles), got \in {"client", "null", "error"} :
       ToggleClient(t, got)
  \/ \E t \in 1..Len(toggles), res \in {"found", "missing", "error"} :
       ToggleList(t, res)
  \/ \E t \in 1..Len(toggles), ok \in BOOLEAN : ToggleDone(t, ok)

SpecSwitch == InitSwitch /\ [][SwitchStep]_vars

\* ------------------------------------------------------------------------
\* Saving the API key: the popup's Save button and the background's
\* SAVE_API_KEY message
\* ------------------------------------------------------------------------
SkPrefix == <<"s","k","_">>

\* String.prototype.startsWith
StartsWith(s, prefix) ==
  Len(s) >= Len(prefix) /\ SubSeq(s, 1, Len(prefix)) = prefix

RECURSIVE TrimStart(_)
TrimStart(s) ==
  IF s # << >> /\ Head(s) = " " THEN TrimStart(Tail(s)) ELSE s

RECURSIVE TrimEnd(_)
TrimEnd(s) ==
  IF s # << >> /\ s[Len(s)] = " " THEN TrimEnd(SubSeq(s, 1, Len(s) - 1))
  ELSE s

\* String.prototype.trim
Trim(s) == TrimEnd(TrimStart(s))

EnterKeyText == "Please enter an API key"
InvalidFormatText == "Invalid API key format. Key should start with sk_"
SavedText == "API key saved successfully"
SaveFailedText == "Failed to save API key"

\* the popup's handleSaveApiKey up to its await: "" when the trimmed value
\* goes on to storage.saveApiKey, the status shown otherwise
popupValidate(value) ==
  IF Trim(value) = << >> THEN EnterKeyText
  ELSE IF ~StartsWith(Trim(value), SkPrefix) THEN InvalidFormatText
  ELSE ""

\* a background handler that saves whatever it is sent
backgroundValidateNothing(key) == ""

\* the background's handleSaveApiKey up to its await: "" when the key goes
\* on to storage.saveApiKey, the message of the Error thrown otherwise
backgroundValidate(key) ==
  IF ~StartsWith(key, SkPrefix) THEN InvalidFormatText ELSE ""

\* what the user types into the popup and what a SAVE_API_KEY message holds
KeyInputs ==
  { << >>, <<" ">>, <<"s","k","_","a">>, <<" ","s","k","_","b"," ">>,
    <<"p","k","_","a">>, <<"s","k">>, <<"x","s","k","_">> }

Report(path, input, ok, text) ==
  [path |-> path, input |-> input, ok |-> ok, text |-> text,
   n |-> report.n + 1]

\* what an attempt to save a key leaves alone
contentVars ==
  << nodes, host, readyState, settings, geometry, limiterVars, mailVars,
     initVars, detectedSymbols,
     highlightedElements, observing, timers, cycles, overlayVars, actionVars,
     detEpoch, windows, rescans >>

\* a save attempt: the key either goes on to storage.saveApiKey or is
\* turned down with a message
SaveAttempt(path, input, key, verdict) ==
  /\ IF verdict = ""
     THEN /\ saving' = Append(saving,
                              [path |-> path, input |-> input, key |-> key])
          /\ report' = report
     ELSE /\ saving' = saving
          /\ report' = Report(path, input, FALSE, verdict)
  /\ UNCHANGED << apiKey, contentVars >>

\* the user clicks Save in the popup
PopupSave(value) ==
  /\ events.clicks < MaxClicks
  /\ events' = [events EXCEPT !.clicks = @ + 1]
  /\ SaveAttempt("popup", value, Trim(value), popupValidate(value))

\* the background receives a SAVE_API_KEY message
BackgroundSave(key) ==
  /\ events.messages < MaxMessages
  /\ events' = [events EXCEPT !.messages = @ + 1]
  /\ SaveAttempt("background", key, key, backgroundValidate(key))

\* chrome.storage.local.set({apiKey}) of a save in flight resolves or
\* rejects; the popup shows its status, the background sends its response
SaveDone(i, ok) ==
  /\ i \in 1..Len(saving)
  /\ saving' = RemoveSeq(saving, i)
  /\ apiKey' = IF ok THEN saving[i].key ELSE apiKey
  /\ report' = Report(saving[i].path, saving[i].input, ok,
                      IF ok THEN SavedText ELSE SaveFailedText)
  /\ UNCHANGED << events, contentVars >>

KeyStep ==
  \/ \E value \in KeyInputs : PopupSave(value)
  \/ \E key \in KeyInputs : BackgroundSave(key)
  \/ \E i \in 1..Len(saving), ok \in BOOLEAN : SaveDone(i, ok)

InitKey == InitToggle

SpecKey == InitKey /\ [][KeyStep]_vars

\* ------------------------------------------------------------------------
\* The rate limiter
\* ------------------------------------------------------------------------

\* this.requests.get(key) || []
MapGet(map, key) == IF key \in DOMAIN map THEN map[key] ELSE << >>

\* this.requests.set(key, records)
MapSet(map, key, records) ==
  [k \in DOMAIN map \cup {key} |-> IF k = key THEN records ELSE map[k]]

\* this.requests.delete(key)
MapDelete(map, key) == [k \in DOMAIN map \ {key} |-> map[k]]

\* records.filter((r) => r.timestamp > windowStart)
Unexpired(records, windowStart) ==
  SelectSeq(records, LAMBDA r : r.timestamp > windowStart)

\* records.reduce((sum, r) => sum + r.count, 0)
RECURSIVE TotalRequests(_)
TotalRequests(records) ==
  IF records = << >> THEN 0
  ELSE Head(records).count + TotalRequests(Tail(records))

\* isAllowed with > for >= in its test against maxRequests
isAllowedOneMore(l, key, t) ==
  LET records == Unexpired(MapGet(l.requests, key), t - l.config.windowMs)
  IN  IF TotalRequests(records) > l.config.maxRequests
      THEN [limiter |-> l, value |-> FALSE]
      ELSE [limiter |-> [l EXCEPT !.requests =
                           MapSet(@, key,
                                  Append(records,
                                         [timestamp |-> t, count |-> 1]))],
            value |-> TRUE]

\* isAllowed pushing its record before the test against maxRequests
isAllowedCountsRejected(l, key, t) ==
  LET records == Unexpired(MapGet(l.requests, key), t - l.config.windowMs)
      pushed  == [l EXCEPT !.requests =
                    MapSet(@, key,
                           Append(records, [timestamp |-> t, count |-> 1]))]
  IN  IF TotalRequests(records) >= l.config.maxRequests
      THEN [limiter |-> pushed, value |-> FALSE]
      ELSE [limiter |-> pushed, value |-> TRUE]

\* isAllowed(key) called at time t: [limiter, value], the limiter after
\* the call and what the call returns
isAllowed(l, key, t) ==
  LET records == Unexpired(MapGet(l.requests, key), t - l.config.windowMs)
  IN  IF TotalRequests(records) >= l.config.maxRequests
      THEN [limiter |-> l, value |-> FALSE]
      ELSE [limiter |-> [l EXCEPT !.requests =
                           MapSet(@, key,
                                  Append(records,
                                         [timestamp |-> t, count |-> 1]))],
            value |-> TRUE]

\* getRemaining(key) called at time t
getRemaining(l, key, t) ==
  LET validRecords ==
        Unexpired(MapGet(l.requests, key), t - l.config.windowMs)
      left == l.config.maxRequests - TotalRequests(validRecords)
  IN  IF left > 0 THEN left ELSE 0

\* the argument of reset: none, or a string
NoArg == [given |-> FALSE, key |-> ""]
Arg(key) == [given |-> TRUE, key |-> key]

\* if (key): a string is truthy unless it is empty
Truthy(arg) == arg.given /\ arg.key # ""

\* reset(key) deleting the key whenever one is given
resetGivenKey(l, arg) ==
  IF arg.given
  THEN [l EXCEPT !.requests = MapDelete(@, arg.key)]
  ELSE [l EXCEPT !.requests = EmptyMap]

\* reset(key?)
reset(l, arg) ==
  IF Truthy(arg)
  THEN [l EXCEPT !.requests = MapDelete(@, arg.key)]
  ELSE [l EXCEPT !.requests = EmptyMap]

\* limiters with small quotas and windows; a quota is a count and a
\* window a positive number of milliseconds
MaxQuota == 2
MaxWindow == 2
MaxNow == 3
MaxLimiterCalls == 4
Configs == [maxRequests : 0..MaxQuota, windowMs : 1..MaxWindow]

\* the keys callers use: the default key, another one, the empty string
LimiterKeys == {"default", "user", ""}

Call(op, key, allowed, remaining) ==
  [op |-> op, key |-> key, allowed |-> allowed, remaining |-> remaining,
   n |-> returned.n + 1]

\* what a call on the limiter leaves alone
callVars ==
  << nodes, host, readyState, settings, apiKey, geometry, saving, report,
     mailVars, initVars, detectedSymbols, highlightedElements, observing, timers,
     cycles, overlayVars, actionVars, detEpoch, windows, rescans, events >>

\* the clock advances
Tick ==
  /\ now < MaxNow
  /\ now' = now + 1
  /\ UNCHANGED << limiter, grants, returned, callVars >>

IsAllowed(key) ==
  /\ returned.n < MaxLimiterCalls
  /\ LET r == isAllowed(limiter, key, now)
     IN  /\ limiter' = r.limiter
         /\ returned' = Call("isAllowed", key, r.value, 0)
         /\ grants' = IF r.value
                      THEN Append(grants, [key |-> key, timestamp |-> now])
                      ELSE grants
  /\ UNCHANGED << now, callVars >>

GetRemaining(key) ==
  /\ returned.n < MaxLimiterCalls
  /\ returned' = Call("getRemaining", key, FALSE,
                      getRemaining(limiter, key, now))
  /\ UNCHANGED << limiter, now, grants, callVars >>

\* reset(key) is a reset of that key, reset() one of every key
Reset(arg) ==
  /\ returned.n < MaxLimiterCalls
  /\ limiter' = reset(limiter, arg)
  /\ returned' = Call(IF arg.given THEN "reset" ELSE "resetAll", arg.key,
                      FALSE, 0)
  /\ grants' = IF arg.given
               THEN SelectSeq(grants, LAMBDA g : g.key # arg.key)
               ELSE << >>
  /\ UNCHANGED << now, callVars >>

LimiterStep ==
  \/ Tick
  \/ \E key \in LimiterKeys : IsAllowed(key)
  \/ \E key \in LimiterKeys : GetRemaining(key)
  \/ \E key \in LimiterKeys : Reset(Arg(key))
  \/ Reset(NoArg)

\* a context with no content script in it: the popup or the background
NoContentScript ==
  /\ nodes = << >>
  /\ host = "other"
  /\ readyState = "complete"
  /\ geometry = DefaultGeometry
  /\ pc = "start"
  /\ detector = FALSE
  /\ domListener = FALSE
  /\ listeners = FALSE
  /\ detectedSymbols = << >>
  /\ highlightedElements = << >>
  /\ observing = FALSE
  /\ timers = << >>
  /\ cycles = << >>
  /\ overlay = NoNode
  /\ currentSymbol = NoSymbol
  /\ lookups = << >>
  /\ replaced = NoNode
  /\ detEpoch = 0
  /\ windows = 0
  /\ rescans = 0
  /\ events = [page |-> 0, messages |-> 0, clicks |-> 0, calls |-> 0]
  /\ toggles = << >>
  /\ sent = << >>
  /\ requests = << >>
  /\ lastInput = NoInput
  /\ failed = NoNode

\* a limiter just constructed with one of the configs
InitLimiter ==
  /\ NoContentScript
  /\ settings = [autoDetect |-> TRUE, highlightSymbols |-> TRUE]
  /\ apiKey = NoKey
  /\ saving = << >>
  /\ report = NoReport
  /\ \E config \in Configs : limiter = RateLimiter(config)
  /\ now = 0
  /\ grants = << >>
  /\ returned = NoCall
  /\ MailIdle

SpecLimiter == InitLimiter /\ [][LimiterStep]_vars

\* ------------------------------------------------------------------------
\* The background listener and the popup
\* ------------------------------------------------------------------------

\* the message types whose handlers start with createApiClient
ApiTypes ==
  {"CREATE_ALERT", "ADD_TO_WATCHLIST", "REMOVE_FROM_WATCHLIST",
   "GET_WATCHLIST"}

UnknownTypeText == "Unknown message type"
NoClientText == "API key not configured"
CreateNoClientText ==
  "API key not configured. Please add your API key in settings."
StorageFailedText == "storage error"
RequestFailedText == "HTTP 500: "

Payload(symbol, key, updates) ==
  [symbol |-> symbol, apiKey |-> key, updates |-> updates]

NoUpdates == [f \in {} |-> FALSE]

\* sendResponse's argument
Response(success, error) == [success |-> success, error |-> error]

\* the .then callback of the listener: sendResponse({success: true, ...})
Resolve(msg) ==
  [msg EXCEPT !.stage = "resolved",
              !.responses = Append(@, Response(TRUE, ""))]

\* a listener with no .catch on the handler's promise
RejectUnanswered(msg, error) ==
  [msg EXCEPT !.stage = "rejected", !.error = error]

\* the .catch callback of the listener: sendResponse({success: false,
\* error: error.message})
Reject(msg, error) ==
  [msg EXCEPT !.stage = "rejected", !.error = error,
              !.responses = Append(@, Response(FALSE, error))]

\* the stages in which a handler awaits chrome.storage.local
StorageStages == {"client", "key", "set", "save", "read", "write"}

Outstanding(msg) == msg.stage \in StorageStages

\* storage.getApiKey on what getStorage read: the apiKey of the parsed
\* data, none in the defaults returned when the data fails the schema
getApiKey(read) ==
  IF read.settings = InvalidSettings THEN NoKey ELSE read.apiKey

\* { ...storage.settings, ...updates }
Merge(stored, updates) ==
  [f \in DOMAIN stored |->
     IF f \in DOMAIN updates THEN updates[f] ELSE stored[f]]

\* the listener's switch on message.type, up to the handler's first await:
\* the message as the background holds it from then on. ok is whether the
\* storage operation the handler starts with will succeed.
listener(type, payload, ok) ==
  LET msg == [type |-> type, payload |-> payload, stage |-> "",
              op |-> opCount + 1, ok |-> ok,
              read |-> [apiKey |-> apiKey, settings |-> settings],
              error |-> "", responses |-> << >>, n |-> Len(inbox) + 1]
  IN  CASE type \in ApiTypes -> [msg EXCEPT !.stage = "client"]
        [] type = "OPEN_ALERT_MODAL" -> [msg EXCEPT !.stage = "key"]
        [] type = "SAVE_API_KEY" ->
             IF backgroundValidate(payload.apiKey) # ""
             THEN Reject(msg, backgroundValidate(payload.apiKey))
             ELSE [msg EXCEPT !.stage = "save"]
        [] type \in {"GET_SETTINGS", "UPDATE_SETTINGS"} ->
             [msg EXCEPT !.stage = "read"]
        [] OTHER ->
             [msg EXCEPT !.stage = "unknown",
                         !.responses =
                           << Response(FALSE, UnknownTypeText) >>]

\* chrome.action.openPopup(): a closed popup opens and its init() starts
\* with storage.getApiKey; opened is whether the browser opens it
openPopup(p, opened) ==
  IF p.pc = "closed" /\ opened
  THEN [p EXCEPT !.pc = "key", !.input = << >>, !.from = 0, !.n = @ + 1]
  ELSE p

\* what the background leaves alone
mailFrame ==
  << nodes, host, readyState, geometry, saving, report, limiterVars,
     initVars, detectedSymbols, highlightedElements, observing, timers,
     cycles, overlayVars, actionVars, detEpoch, windows, rescans, events >>

MaxInbox == 2
MaxPopups == 2

\* the listener runs for a message
Receive(type, payload) ==
  /\ Len(inbox) < MaxInbox
  /\ \E ok \in BOOLEAN :
       LET msg == listener(type, payload, ok)
       IN  /\ Outstanding(msg) \/ ok
           /\ inbox' = Append(inbox, msg)
           /\ opCount' = IF Outstanding(msg) THEN opCount + 1 ELSE opCount
           /\ apiKey' = IF msg.stage = "save" /\ ok
                        THEN payload.apiKey ELSE apiKey
  /\ UNCHANGED << settings, pendingAlert, popup, mailFrame >>

\* chrome.storage.local answers its callers in the order they asked
Oldest(i) ==
  \A j \in 1..Len(inbox) :
    Outstanding(inbox[j]) => inbox[j].op >= inbox[i].op

\* handleOpenAlertModal storing the symbol whether or not a key is stored
AfterKeyAlways(msg, ok, opened) ==
  [msg |-> [msg EXCEPT !.stage = "set", !.op = opCount + 1, !.ok = ok],
   pendingAlert |-> IF ok
                    THEN [symbol |-> msg.payload.symbol, from |-> msg.n]
                    ELSE pendingAlert,
   popup |-> popup, ops |-> 1]

\* handleOpenAlertModal after storage.getApiKey resolved: without a key the
\* notification and openPopup; with one, chrome.storage.local.set of the
\* pending symbol
AfterKey(msg, ok, opened) ==
  IF getApiKey(msg.read) = NoKey
  THEN [msg |-> Resolve(msg), pendingAlert |-> pendingAlert,
        popup |-> openPopup(popup, opened), ops |-> 0]
  ELSE [msg |-> [msg EXCEPT !.stage = "set", !.op = opCount + 1,
                            !.ok = ok],
        pendingAlert |-> IF ok
                         THEN [symbol |-> msg.payload.symbol,
                               from |-> msg.n]
                         ELSE pendingAlert,
        popup |-> popup, ops |-> 1]

\* the storage operation a handler awaits settles: the handler goes on to
\* its next await or to its end. ok is whether the operation it issues
\* next will succeed, opened whether a call of openPopup opens the popup.
StorageResume(i, ok, opened) ==
  /\ i \in 1..Len(inbox)
  /\ Outstanding(inbox[i])
  /\ Oldest(i)
  /\ LET msg == inbox[i]
         r == CASE ~msg.ok ->
                     [msg |-> Reject(msg, StorageFailedText),
                      pendingAlert |-> pendingAlert, popup |-> popup,
                      ops |-> 0]
                [] msg.ok /\ msg.stage = "client" ->
                     [msg |-> IF msg.read.apiKey = NoKey
                              THEN Reject(msg,
                                     IF msg.type = "CREATE_ALERT"
                                     THEN CreateNoClientText
                                     ELSE NoClientText)
                              ELSE [msg EXCEPT !.stage = "api"],
                      pendingAlert |-> pendingAlert, popup |-> popup,
                      ops |-> 0]
                [] msg.ok /\ msg.stage = "key" -> AfterKey(msg, ok, opened)
                [] msg.ok /\ msg.stage = "set" ->
                     [msg |-> Resolve(msg), pendingAlert |-> pendingAlert,
                      popup |-> openPopup(popup, opened), ops |-> 0]
                [] msg.ok /\ msg.stage = "read"
                          /\ msg.type = "UPDATE_SETTINGS" ->
                     [msg |-> [msg EXCEPT !.stage = "write",
                                          !.op = opCount + 1, !.ok = ok],
                      pendingAlert |-> pendingAlert, popup |-> popup,
                      ops |-> 1]
                [] OTHER ->
                     [msg |-> Resolve(msg), pendingAlert |-> pendingAlert,
                      popup |-> popup, ops |-> 0]
     IN  /\ inbox' = [inbox EXCEPT ![i] = r.msg]
         /\ pendingAlert' = r.pendingAlert
         /\ opCount' = opCount + r.ops
         /\ popup' = r.popup
         /\ settings' = IF r.msg.stage = "write" /\ ok
                        THEN Merge(getSettings(msg.read.settings),
                                   msg.payload.updates)
                        ELSE settings
  /\ UNCHANGED << apiKey, mailFrame >>

\* the request of a handler's API call settles
ApiResume(i, ok) ==
  /\ i \in 1..Len(inbox)
  /\ inbox[i].stage = "api"
  /\ inbox' = [inbox EXCEPT ![i] =
                 IF ok THEN Resolve(@) ELSE Reject(@, RequestFailedText)]
  /\ UNCHANGED << settings, apiKey, pendingAlert, popup, opCount,
                  mailFrame >>

\* the popup's init() with no chrome.storage.local.remove
AfterPendingKeeps(p) ==
  IF p.read # NoPending
  THEN [popup |-> [p EXCEPT !.pc = "remove", !.input = p.read.symbol,
                            !.from = p.read.from,
                            !.shown = Append(@, [n |-> p.n,
                                                 from |-> p.read.from])],
        pendingAlert |-> pendingAlert]
  ELSE [popup |-> [p EXCEPT !.pc = "ready"],
        pendingAlert |-> pendingAlert]

\* the popup's init() after chrome.storage.local.get('pendingAlertSymbol')
\* resolved: a stored symbol goes into alertSymbolInput and the entry is
\* removed; shown keeps which opening showed which message's symbol
AfterPending(p) ==
  IF p.read # NoPending
  THEN [popup |-> [p EXCEPT !.pc = "remove", !.input = p.read.symbol,
                            !.from = p.read.from,
                            !.shown = Append(@, [n |-> p.n,
                                                 from |-> p.read.from])],
        pendingAlert |-> NoPending]
  ELSE [popup |-> [p EXCEPT !.pc = "ready"],
        pendingAlert |-> pendingAlert]

\* the user opens the popup from the toolbar
PopupOpen ==
  /\ popup.pc = "closed"
  /\ popup.n < MaxPopups
  /\ popup' = openPopup(popup, TRUE)
  /\ UNCHANGED << inbox, settings, apiKey, pendingAlert, opCount,
                  mailFrame >>

\* the storage operation the popup's init() awaits resolves
PopupResume ==
  /\ popup.pc \in {"key", "pending", "remove"}
  /\ LET r == CASE popup.pc = "key" ->
                     [popup |-> [popup EXCEPT !.pc = "pending",
                                              !.read = pendingAlert],
                      pendingAlert |-> pendingAlert]
                [] popup.pc = "pending" -> AfterPending(popup)
                [] OTHER ->
                     [popup |-> [popup EXCEPT !.pc = "ready"],
                      pendingAlert |-> pendingAlert]
     IN  /\ popup' = r.popup
         /\ pendingAlert' = r.pendingAlert
  /\ UNCHANGED << inbox, settings, apiKey, opCount, mailFrame >>

\* the popup closes: its document and its script are gone
PopupClose ==
  /\ popup.pc # "closed"
  /\ popup' = [ClosedPopup EXCEPT !.n = popup.n, !.shown = popup.shown]
  /\ UNCHANGED << inbox, settings, apiKey, pendingAlert, opCount,
                  mailFrame >>

AlertSymbols == { <<"M","S","F","T">>, <<"T","S","L","A">> }

\* one message of every type the listener knows, one with a key the
\* handler refuses, one of a type it does not know
ListenerMessages ==
  { [type |-> t, payload |-> Payload(<<"M","S","F","T">>, StoredKey,
                                     [autoDetect |-> FALSE])] :
      t \in ApiTypes \cup {"OPEN_ALERT_MODAL", "SAVE_API_KEY",
                            "GET_SETTINGS", "UPDATE_SETTINGS", "PING"} }
  \cup { [type |-> "SAVE_API_KEY",
          payload |-> Payload(<< >>, <<"p","k","_","a">>, NoUpdates)] }

\* the background just loaded, the popup closed
InitMail ==
  /\ NoContentScript
  /\ settings \in {[autoDetect |-> TRUE, highlightSymbols |-> TRUE],
                    InvalidSettings}
  /\ apiKey \in {NoKey, StoredKey}
  /\ saving = << >>
  /\ report = NoReport
  /\ LimiterIdle

ListenerStep ==
  \/ \E m \in ListenerMessages : Receive(m.type, m.payload)
  \/ \E i \in 1..Len(inbox), ok \in BOOLEAN, opened \in BOOLEAN :
       StorageResume(i, ok, opened)
  \/ \E i \in 1..Len(inbox), ok \in BOOLEAN : ApiResume(i, ok)

SpecListener == InitMail /\ [][ListenerStep]_vars

\* the requests to open the alert form, a key being saved, and the popup
ModalMessages ==
  { [type |-> "OPEN_ALERT_MODAL",
     payload |-> Payload(s, NoKey, NoUpdates)] : s \in AlertSymbols }
  \cup { [type |-> "SAVE_API_KEY",
          payload |-> Payload(<< >>, StoredKey, NoUpdates)] }

ModalStep ==
  \/ \E m \in ModalMessages : Receive(m.type, m.payload)
  \/ \E i \in 1..Len(inbox), ok \in BOOLEAN, opened \in BOOLEAN :
       StorageResume(i, ok, opened)
  \/ PopupOpen
  \/ PopupResume
  \/ PopupClose

SpecModal == InitMail /\ [][ModalStep]_vars

\* updates of one field, of the other, and of both
SettingsUpdates ==
  { [autoDetect |-> FALSE], [highlightSymbols |-> FALSE],
    [autoDetect |-> TRUE], [autoDetect |-> FALSE,
                            highlightSymbols |-> FALSE] }

SettingsMessages ==
  { [type |-> "UPDATE_SETTINGS",
     payload |-> Payload(<< >>, NoKey, u)] : u \in SettingsUpdates }
  \cup { [type |-> "GET_SETTINGS",
          payload |-> Payload(<< >>, NoKey, NoUpdates)] }

SettingsStep ==
  \/ \E m \in SettingsMessages : Receive(m.type, m.payload)
  \/ \E i \in 1..Len(inbox), ok \in BOOLEAN, opened \in BOOLEAN :
       StorageResume(i, ok, opened)

SpecSettings == InitMail /\ [][SettingsStep]_vars

\* the placing of the panel: pointers, panel sizes and window sizes in px,
\* the pointer inside the window and the window large enough to hold the
\* panel and the offset
Pointers == {0, 15, 45, 95}
PanelSizes == {30, 60}
WindowSizes == {70, 100}
Geometries ==
  { g \in [x : Pointers, y : Pointers, w : PanelSizes, h : PanelSizes,
           W : WindowSizes, H : WindowSizes] :
      /\ g.x < g.W /\ g.y < g.H
      /\ g.w + OverlayOffset <= g.W /\ g.h + OverlayOffset <= g.H }

PlaceStep ==
  \/ \E m \in Markers : ClickMarker(m)
  \/ \E i \in 1..Len(timers) : HideTimer(i)
  \/ \E i \in 1..Len(timers) : FadeInTimer(i)

InitPlace ==
  /\ InitOverlayAt(Geometries)
  /\ nodes = Loaded(ToggleText).nodes
  /\ apiKey = StoredKey

SpecPlace == InitPlace /\ [][PlaceStep]_vars

\* rescans of a loaded page that holds an open overlay and nested elements
\* of excluded and of plain tags
SkipStep ==
  \/ \E i \in 1..Len(timers) : RescanTimer(i)
  \/ \E i \in 1..Len(timers) : HideTimer(i)
  \/ \E i \in 1..Len(timers) : FadeInTimer(i)
  \/ \E m \in Markers : ClickMarker(m)
  \/ \E a \in NestedAdds : PageAppendIn(a.outer, a.inner, NestedText)

InitSkip == InitToggle /\ apiKey = StoredKey

SpecSkip == InitSkip /\ [][SkipStep]_vars

\* ------------------------------------------------------------------------
\* SymbolDetector as a class: its public methods called by any client
\* ------------------------------------------------------------------------
Called ==
  /\ detector
  /\ events.calls < MaxCalls
  /\ events' = [events EXCEPT !.calls = @ + 1]

CallScanDocument ==
  /\ Called
  /\ detectedSymbols' = scanDocument(World).det
  /\ detEpoch' = detEpoch + 1
  /\ UNCHANGED << nodes, pageVars, readyState, initVars, highlightedElements,
                  observing, timers, cycles, overlayVars, actionVars, windows, rescans >>

CallHighlightSymbols ==
  /\ Called
  /\ Commit(highlightSymbols(World), timers, observing)
  /\ UNCHANGED << pageVars, readyState, initVars, observing, cycles,
                  overlayVars, actionVars, detEpoch, rescans >>

CallRemoveHighlights ==
  /\ Called
  /\ Commit(removeHighlights(World), timers, observing)
  /\ UNCHANGED << pageVars, readyState, initVars, observing, cycles,
                  overlayVars, actionVars, detEpoch, rescans >>

CallStartObserving ==
  /\ Called
  /\ observing' = TRUE
  /\ UNCHANGED << nodes, pageVars, readyState, initVars, detectedSymbols,
                  highlightedElements, timers, cycles, overlayVars, actionVars, detEpoch,
                  windows, rescans >>

\* stopObserving: observer.disconnect()
stopObserving(tms) == tms

CallStopObserving ==
  /\ Called
  /\ observing' = FALSE
  /\ timers' = stopObserving(timers)
  /\ UNCHANGED << nodes, pageVars, readyState, initVars, detectedSymbols,
                  highlightedElements, cycles, overlayVars, actionVars, detEpoch, windows,
                  rescans >>

\* destroy: stopObserving, removeHighlights, detectedSymbols.clear()
CallDestroy ==
  /\ Called
  /\ observing' = FALSE
  /\ Commit([removeHighlights(World) EXCEPT !.det = << >>],
            stopObserving(timers), FALSE)
  /\ UNCHANGED << pageVars, readyState, initVars, cycles, overlayVars, actionVars,
                  detEpoch, rescans >>

DetectorStep ==
  \/ CallScanDocument
  \/ CallHighlightSymbols
  \/ CallRemoveHighlights
  \/ CallStartObserving
  \/ CallStopObserving
  \/ CallDestroy
  \/ \E a \in PageAdds : PageAppend(a.tag, a.text)
  \/ \E el \in PageElements : PageRemove(el)
  \/ \E i \in 1..Len(timers) : RescanTimer(i)

\* a detector just constructed on a loaded page whose text is one of texts
InitDetectorOn(texts) ==
  /\ \E text \in texts : nodes = InitialDocument(text)
  /\ host = "other"
  /\ geometry = DefaultGeometry
  /\ saving = << >>
  /\ report = NoReport
  /\ LimiterIdle
  /\ readyState = "complete"
  /\ settings = [autoDetect |-> TRUE, highlightSymbols |-> TRUE]
  /\ apiKey = StoredKey
  /\ pc = "done"
  /\ detector = TRUE
  /\ domListener = FALSE
  /\ listeners = FALSE
  /\ detectedSymbols = << >>
  /\ highlightedElements = << >>
  /\ observing = FALSE
  /\ timers = << >>
  /\ cycles = << >>
  /\ overlay = NoNode
  /\ currentSymbol = NoSymbol
  /\ lookups = << >>
  /\ replaced = NoNode
  /\ detEpoch = 0
  /\ windows = 0
  /\ rescans = 0
  /\ events = [page |-> 0, messages |-> 0, clicks |-> 0, calls |-> 0]
  /\ toggles = << >>
  /\ sent = << >>
  /\ requests = << >>
  /\ lastInput = NoInput
  /\ failed = NoNode

InitDetector == InitDetectorOn(InitTexts)

SpecDetector == InitDetector /\ [][DetectorStep]_vars

\* the detector's observer against every kind of mutation a page makes:
\* added nodes, removed nodes, character data and attributes
ObserverStep ==
  \/ CallScanDocument
  \/ CallHighlightSymbols
  \/ CallStartObserving
  \/ CallStopObserving
  \/ \E a \in PageAdds : PageAppend(a.tag, a.text)
  \/ \E el \in PageElements : PageRemove(el)
  \/ \E n \in PageTexts : PageSetData(n)
  \/ \E el \in PageElements : PageSetStyle(el)
  \/ \E i \in 1..Len(timers) : RescanTimer(i)

ObserverText == <<"M","S","F","T"," ","C","E","O"," ","B","R","K",".","A">>

InitObserver == InitDetectorOn({ObserverText})

\* the matcher and the filters of detectSymbolsInText on every short text
\* over a small alphabet (two letters, the dot, a lower-case letter, the
\* space), on longer texts of letters and dots, and on the examples of the
\* pattern's documentation
MaxText == 5
MaxRunText == 8
MatchAlphabet == {"A", "B", ".", "x", " "}
ExampleTexts ==
  { <<"A","A","P","L",".">>, <<"B","R","K",".","A">>,
    <<"A","B","C","D","E","F">> }
MatchTexts ==
  UNION { [1..n -> MatchAlphabet] : n \in 1..MaxText }
  \cup UNION { [1..n -> {"A", "."}] : n \in (MaxText + 1)..MaxRunText }
  \cup ExampleTexts

MatchStep == CallScanDocument

InitMatch == InitDetectorOn(MatchTexts)

SpecMatch == InitMatch /\ [][MatchStep]_vars

SpecObserver == InitObserver /\ [][ObserverStep]_vars

\* the same system with the timer callbacks scheduled: a rescan timer that
\* stays set runs its callback (setTimeout); the page and the caller act as
\* often as they like, or not at all. RescanTimer is the only action that
\* changes rescans and is enabled exactly when a rescan timer is due.
RescanDue ==
  \E i \in 1..Len(timers) : MayFire(i) /\ timers[i].kind = "rescan"

\* the step RescanTimer takes whenever its guard holds, by its count
RescanRuns == RescanDue /\ rescans' = rescans + 1

FairSpecObserver == SpecObserver /\ WF_rescans(RescanRuns)

\* ------------------------------------------------------------------------
\* Properties
\* ------------------------------------------------------------------------

\* every live range of detectedSymbols starts and ends in the same node
RangesInOneNode ==
  \A b \in 1..Len(detectedSymbols) :
    \A k \in 1..Len(detectedSymbols[b].dets) :
      detectedSymbols[b].dets[k].sc = detectedSymbols[b].dets[k].ec

\* C1: when a Marker of another token is clicked while an overlay is open,
\* then once every pending timer has run (and with no user input since)
\* the document holds exactly one overlay panel, the one opened by that
\* click.
C1_ReplacedOverlayRemains ==
  (replaced # NoNode /\ timers = << >>) => Panels = {replaced}

\* C2: the document never holds more than one element of class
\* stockalert-overlay.
C2_AtMostOneOverlay == Cardinality(Panels) <= 1

\* C3: qualifying batches that arrive while a rescan is pending are
\* coalesced into it: once no rescan timer is pending, as many rescans have
\* run as batches arrived with no rescan pending.
C3_DebounceCoalesces == ~RescanPending(timers) => rescans = windows

\* C4: after stopObserving or destroy no debounced rescan is left to run:
\* a detector that is not observing has no pending rescan timer.
C4_StopCancelsRescan == ~observing => ~RescanPending(timers)

\* C5: a membership result is applied only to the overlay of its own token:
\* the watchlist button of every panel ever made is bound to that panel's
\* token, and the open panel's token is currentSymbol.
C5_ResultOnlyForOpenToken ==
  /\ \A p \in 1..Len(nodes) :
       nodes[p].cls = "stockalert-overlay" =>
         nodes[p].btn.symbol = nodes[p].symbol
  /\ overlay # NoNode => nodes[overlay].symbol = currentSymbol

\* C5 witness: the open overlay has had its own result applied while the
\* result for another token, asked for by an earlier overlay, is in flight
C5_StaleResultInFlight ==
  /\ overlay # NoNode
  /\ nodes[overlay].btn.known
  /\ \E l \in 1..Len(lookups) :
       lookups[l].stage = "query" /\ lookups[l].symbol # currentSymbol

\* scanDocument then highlightSymbols, as the debounced rescan runs them
Pass(w) == highlightSymbols(scanDocument(w))

\* C6: from any tree the content script reaches, scanDocument and
\* highlightSymbols run twice in succession leave the tree and the marker
\* registry that running them once leaves.
C6_PassIdempotent ==
  LET once  == Pass(World)
      twice == Pass(once)
  IN  twice.nodes = once.nodes /\ twice.hl = once.hl

\* C6 witness: a tree in which the first pass wraps something
C6_PassWraps == Len(Pass(World).hl) > Len(highlightedElements)

\* C7: no Marker and no bucket of detectedSymbols carries a token of
\* EXCLUDED_WORDS.
C7_ExcludedNeverMarked ==
  /\ \A id \in 1..Len(nodes) :
       nodes[id].cls = "stockalert-symbol" =>
         nodes[id].symbol \notin EXCLUDED_WORDS
  /\ \A b \in 1..Len(detectedSymbols) :
       detectedSymbols[b].symbol \notin EXCLUDED_WORDS

\* C7 witness: Markers were made in a document one of whose scanned text
\* nodes holds an excluded word between word boundaries
C7_ExcludedWordScanned ==
  /\ Markers # {}
  /\ \E n \in 1..Len(nodes) :
       /\ nodes[n].kind = "text"
       /\ Connected(nodes, n)
       /\ \A a \in Ancestors(nodes, n) : ~SkipsElement(nodes, a)
       /\ \E k \in 1..Len(MatchAll(nodes[n].data)) :
            MatchAll(nodes[n].data)[k].symbol \in EXCLUDED_WORDS

\* C8: what a scan of any reachable tree detects lies in no Marker.
C8_ScanSkipsMarkers ==
  LET ds == scanNode(nodes, Body)
  IN  \A k \in 1..Len(ds) :
        \A a \in Ancestors(nodes, ds[k].sc) :
          nodes[a].cls # "stockalert-symbol"

\* C8 witness: a debounced rescan ran over a document holding Markers and
\* detected nothing
C8_RescanOverMarkers ==
  /\ rescans > 0
  /\ Markers # {}
  /\ detectedSymbols = << >>

\* C9: the text content of every Marker in the document is the token of its
\* data-symbol attribute.
C9_MarkerTextIsToken ==
  \A m \in Markers : TextContent(nodes, m) = nodes[m].symbol

\* C10: a scanAndHighlight call that has scanned and not yet highlighted
\* still finds in detectedSymbols the result of its own scan: no other
\* handler has scanned in between.
C10_HighlightUsesOwnScan ==
  \A c \in 1..Len(cycles) : cycles[c].epoch = detEpoch

\* C11: when the add or remove call of a toggle fails while its overlay is
\* open, the overlay is closed: once no hide timer is pending, the overlay
\* is out of the document.
C11_FailedToggleCloses ==
  (failed # NoNode /\ ~HidePending(timers)) => ~Connected(nodes, failed)

Closers == {"outside", "escape", "close"}

\* C12: after a click outside the open overlay, Escape or a click on a close
\* button, and with no further input, the overlay that was open is removed
\* and overlay and currentSymbol are null as soon as no hide timer is
\* pending; after a click inside the open overlay on none of its buttons,
\* with nothing closing it at the time, the overlay stays open.
C12_CloseInputsClose ==
  /\ (lastInput.kind \in Closers /\ lastInput.open # NoNode /\
      ~HidePending(timers))
       => /\ ~Connected(nodes, lastInput.open)
          /\ overlay = NoNode
          /\ currentSymbol = NoSymbol
  /\ (lastInput.kind = "inside" /\ lastInput.panel = lastInput.open /\
      lastInput.quiet)
       => /\ overlay = lastInput.open
          /\ Connected(nodes, overlay)
          /\ currentSymbol = nodes[overlay].symbol
          /\ ~HidePending(timers)

C12_ClosedByCloseButton ==
  /\ lastInput.kind = "close"
  /\ lastInput.open # NoNode
  /\ lastInput.panel = lastInput.open
  /\ ~HidePending(timers)
  /\ overlay = NoNode

\* C13: a click on the create-alert button of the open overlay for token T
\* sends one OPEN_ALERT_MODAL message with symbol T and nothing else, and
\* the overlay is closed once no hide timer is pending, whatever became of
\* the message.
C13_CreateAlertSendsAndCloses ==
  lastInput.kind = "create" =>
    /\ Len(sent) = lastInput.sent + 1
    /\ sent[Len(sent)].type = "OPEN_ALERT_MODAL"
    /\ sent[Len(sent)].symbol = lastInput.symbol
    /\ (lastInput.panel = lastInput.open /\ ~HidePending(timers))
         => ~Connected(nodes, lastInput.panel) /\ overlay = NoNode

C13_ClosedWhileMessagePending ==
  /\ lastInput.kind = "create"
  /\ lastInput.panel = lastInput.open
  /\ sent[Len(sent)].status = "pending"
  /\ ~HidePending(timers)
  /\ ~Connected(nodes, lastInput.panel)

RequestsOf(n) == { k \in 1..Len(requests) : requests[k].n = n }

\* C14: once a lookup reported the open token as a watchlist member, the
\* button reads "Remove from Watchlist"; a click on a button that reads so
\* hands inWatchlist = true to handleWatchlistToggle, issues no add request,
\* at most one remove request, for the panel's token, and exactly one
\* once listWatchlist has returned the token's item.
C14_RemoveHandlerReplacesAdd ==
  /\ \A p \in 1..Len(nodes) :
       (nodes[p].cls = "stockalert-overlay" /\ nodes[p].btn.known /\
        nodes[p].btn.inWatchlist)
         => nodes[p].btn.label = RemoveLabel
  /\ \A t \in 1..Len(toggles) :
       toggles[t].label = RemoveLabel =>
         /\ toggles[t].inWatchlist
         /\ toggles[t].symbol = nodes[toggles[t].panel].symbol
         /\ toggles[t].stage # "add"
         /\ toggles[t].stage = "remove" =>
              Cardinality(RequestsOf(toggles[t].n)) = 1
  /\ \A k \in 1..Len(requests) :
       requests[k].label = RemoveLabel =>
         /\ requests[k].op = "remove"
         /\ requests[k].symbol = nodes[requests[k].panel].symbol
         /\ RequestsOf(requests[k].n) = {k}

C14_RemoveRequested ==
  \E k \in 1..Len(requests) :
    /\ requests[k].label = RemoveLabel
    /\ requests[k].op = "remove"
    /\ \A t \in 1..Len(toggles) : toggles[t].n # requests[k].n

InitReadFailed ==
  settings # InvalidSettings /\ ~settings.autoDetect /\ detector

\* C16: when init's settings read failed, init runs to its end with the
\* detector created and the listeners set, and the page is highlighted:
\* once a scanAndHighlight cycle has completed on the page as loaded, the
\* document holds Markers.
C16_FailedInitReadDefaults ==
  InitReadFailed =>
    /\ pc = "done" /\ listeners
    /\ (observing /\ events.page = 0) => Markers # {}

RescanTimers(tms) == { i \in 1..Len(tms) : tms[i].kind = "rescan" }

\* C17: a step sets a rescan timer only when the observer is observing and
\* the step put a node below document.body (a childList record with added
\* nodes); removals, data changes and attribute changes alone set none,
\* and nothing sets one before startObserving.
C17_OnlyAddedNodesSchedule ==
  [][ (Cardinality(RescanTimers(timers')) + rescans' >
       Cardinality(RescanTimers(timers)) + rescans)
      => /\ observing
         /\ \E id \in 1..Len(nodes') :
              /\ Connected(nodes', id)
              /\ \/ id > Len(nodes)
                 \/ Parent(nodes', id) # Parent(nodes, id) ]_vars

C17_DataChangeUnnoticed ==
  /\ observing
  /\ windows = 0
  /\ ~RescanPending(timers)
  /\ \E m \in Markers :
       TextContent(nodes, m) = NewData /\ nodes[m].symbol # NewData

\* s is 1-5 letters of A-Z, optionally followed by a dot and 1-2 letters
TokenForm(s) ==
  \E k \in 1..MaxLetters, m \in 0..MaxSuffix :
    /\ Len(s) = (IF m = 0 THEN k ELSE k + 1 + m)
    /\ \A i \in 1..k : s[i] \in Upper
    /\ m > 0 => /\ s[k + 1] = "."
                /\ \A i \in (k + 2)..(k + 1 + m) : s[i] \in Upper

\* text[a..b] has the form of a token and a word boundary on either side
IsToken(text, a, b) ==
  /\ WordBoundary(text, a)
  /\ WordBoundary(text, b + 1)
  /\ TokenForm(SubSeq(text, a, b))

\* the number of letters of the run of A-Z that holds index p
RunAround(text, p) ==
  Cardinality({ q \in 1..Len(text) :
                  \A r \in (IF q < p THEN q..p ELSE p..q) :
                    text[r] \in Upper })

First(m) == m.index + 1
Last(m) == m.index + Len(m.symbol)

\* the matches of a text are tokens, lie left to right without overlap,
\* leave no token out whose first character no match covers, are the
\* longest token at their start, and take no letter of a run of more than
\* MaxLetters letters
MatcherExact(text) ==
  LET ms == MatchAll(text)
  IN  /\ \A i \in 1..Len(ms) :
           /\ ms[i].symbol = SubSeq(text, First(ms[i]), Last(ms[i]))
           /\ IsToken(text, First(ms[i]), Last(ms[i]))
           /\ \A p \in First(ms[i])..Last(ms[i]) :
                text[p] \in Upper => RunAround(text, p) <= MaxLetters
      /\ \A i \in 1..(Len(ms) - 1) : Last(ms[i]) < First(ms[i + 1])
      /\ \A a \in 1..Len(text) : \A b \in a..Len(text) :
           IsToken(text, a, b) =>
             \E i \in 1..Len(ms) :
               /\ First(ms[i]) <= a /\ a <= Last(ms[i])
               /\ First(ms[i]) = a => b <= Last(ms[i])

\* the text of the page as loaded: the one text node of InitialDocument
LoadedText == nodes[3].data

\* C18: the matches of the page's text are exactly the tokens of the form
\* 1-5 letters with an optional dot and 1-2 letters between word
\* boundaries, left to right and without overlap; every stored detection
\* is such a match; 'AAPL.' gives AAPL, 'BRK.A' gives BRK.A as one token,
\* and 'ABCDEF' gives no match.
C18_MatcherExact ==
  /\ MatcherExact(LoadedText)
  /\ \A b \in 1..Len(detectedSymbols) :
       \A k \in 1..Len(detectedSymbols[b].dets) :
         LET d == detectedSymbols[b].dets[k]
         IN  /\ d.symbol = SubSeq(nodes[d.sc].data, d.so + 1, d.eo)
             /\ IsToken(nodes[d.sc].data, d.so + 1, d.eo)
  /\ MatchAll(<<"A","A","P","L",".">>)
       = << [index |-> 0, symbol |-> <<"A","A","P","L">>] >>
  /\ MatchAll(<<"B","R","K",".","A">>)
       = << [index |-> 0, symbol |-> <<"B","R","K",".","A">>] >>
  /\ MatchAll(<<"A","B","C","D","E","F">>) = << >>

\* the scan of 'BRK.A' has stored the one token with its suffix
C18_SuffixTokenScanned ==
  /\ detEpoch > 0
  /\ LoadedText = <<"B","R","K",".","A">>
  /\ Len(detectedSymbols) = 1
  /\ detectedSymbols[1].symbol = LoadedText
  /\ Len(detectedSymbols[1].dets) = 1

\* the letters of a token before its exchange suffix
LetterPart(symbol) == SubSeq(symbol, 1, UpperRun(symbol, 1, Len(symbol)))

\* C19: no token of the Detection Set has fewer than 2 letters before its
\* exchange suffix: a single letter is dropped with or without a suffix.
C19_ShortLetterPartDropped ==
  \A b \in 1..Len(detectedSymbols) :
    Len(LetterPart(detectedSymbols[b].symbol)) >= MinSymbolLength

RECURSIVE PreOrderOfKids(_, _, _)
\* the nodes at and below id in document pre-order
PreOrder(ns, id) == <<id>> \o PreOrderOfKids(ns, ns[id].kids, 1)
PreOrderOfKids(ns, kids, i) ==
  IF i > Len(kids) THEN << >>
  ELSE PreOrder(ns, kids[i]) \o PreOrderOfKids(ns, kids, i + 1)

\* the text nodes below document.body that no skipped element encloses
ScannedTexts(ns) ==
  { n \in 1..Len(ns) :
      /\ ns[n].kind = "text"
      /\ Connected(ns, n)
      /\ \A a \in Ancestors(ns, n) : ~SkipsElement(ns, a) }

\* the surviving matches of the scanned text nodes, each as
\* <<text node, start offset, end offset, token>>
SurvivingMatches(ns) ==
  UNION { { << n, Surviving(ns[n].data)[k].index,
               Surviving(ns[n].data)[k].index
                 + Len(Surviving(ns[n].data)[k].symbol),
               Surviving(ns[n].data)[k].symbol >>
            : k \in 1..Len(Surviving(ns[n].data)) }
          : n \in ScannedTexts(ns) }

\* the occurrences of a Detection Set, each as <<bucket, place in bucket>>
Occurrences(det) ==
  UNION { { <<b, k>> : k \in 1..Len(det[b].dets) } : b \in 1..Len(det) }

\* det holds one occurrence for each surviving match of the tree ns and
\* nothing else, each under its token, each bucket in document order
DetectionSetExact(ns, det) ==
  LET po       == PreOrder(ns, Body)
      Pos(n)   == CHOOSE i \in 1..Len(po) : po[i] = n
      Match(o) == LET d == det[o[1]].dets[o[2]]
                  IN  << d.sc, d.so, d.eo, d.symbol >>
  IN  /\ \A o \in Occurrences(det) :
           LET d == det[o[1]].dets[o[2]]
           IN  /\ d.symbol = det[o[1]].symbol
               /\ d.sc = d.ec
               /\ d.element = Parent(ns, d.sc)
               /\ Match(o) \in SurvivingMatches(ns)
      /\ \A m \in SurvivingMatches(ns) :
           Cardinality({ o \in Occurrences(det) : Match(o) = m }) = 1
      /\ \A b, c \in 1..Len(det) :
           /\ det[b].dets # << >>
           /\ det[b].symbol = det[c].symbol => b = c
      /\ \A b \in 1..Len(det) : \A k, l \in 1..Len(det[b].dets) :
           k < l =>
             LET d == det[b].dets[k]
                 e == det[b].dets[l]
             IN  \/ Pos(d.sc) < Pos(e.sc)
                 \/ d.sc = e.sc /\ d.so < e.so

\* C20: when scanDocument has returned, the Detection Set holds exactly
\* one occurrence for every surviving match of every scanned text node of
\* the tree as it is now and nothing from an earlier pass, each occurrence
\* under its token, and each bucket in first-seen order (document
\* pre-order, left to right within a text node).
C20_ScanRebuildsDetectionSet ==
  [][ (detEpoch' # detEpoch /\ nodes' = nodes)
      => DetectionSetExact(nodes', detectedSymbols') ]_vars

\* a second pass has found the same token in two text nodes
C20_TokenInTwoNodes ==
  /\ detEpoch > 1
  /\ DetectionSetExact(nodes, detectedSymbols)
  /\ \E b \in 1..Len(detectedSymbols) :
       /\ Len(detectedSymbols[b].dets) = 2
       /\ detectedSymbols[b].dets[1].sc # detectedSymbols[b].dets[2].sc

\* the elements scanNode does not descend into by tag or as the overlay
ExcludedContainer(ns, id) ==
  ns[id].tag \in EXCLUDED_TAGS \/ ns[id].cls = "stockalert-overlay"

\* C21: no occurrence of the Detection Set lies in or below a SCRIPT,
\* STYLE, CODE, PRE, NOSCRIPT or IFRAME element or the overlay, at any
\* depth.
C21_NoOccurrenceInExcluded ==
  \A o \in Occurrences(detectedSymbols) :
    LET d == detectedSymbols[o[1]].dets[o[2]]
    IN  \A a \in InclusiveAncestors(nodes, d.sc) \cup
                 InclusiveAncestors(nodes, d.ec) :
          ~ExcludedContainer(nodes, a)

\* a rescan has run over an open overlay and over a token two levels
\* below an excluded element, and has found the token beside it
C21_RescanOverExcluded ==
  /\ rescans > 0
  /\ overlay # NoNode /\ Connected(nodes, overlay)
  /\ \E n \in 1..Len(nodes) :
       /\ nodes[n].kind = "text" /\ Connected(nodes, n)
       /\ Surviving(nodes[n].data) # << >>
       /\ \E a \in Ancestors(nodes, n) \ {Parent(nodes, n)} :
            nodes[a].tag \in EXCLUDED_TAGS
  /\ \E b \in 1..Len(detectedSymbols) :
       detectedSymbols[b].symbol = NestedText

\* the Markers of the tree ns that lie in the document under no other Marker
OuterMarkers(ns) ==
  { m \in 1..Len(ns) :
      /\ ns[m].cls = "stockalert-symbol"
      /\ Connected(ns, m)
      /\ \A a \in Ancestors(ns, m) : ns[a].cls # "stockalert-symbol" }

\* C22: removeHighlights, called in any state, leaves no Marker in the
\* document, puts in the place of each Marker a plain text node holding
\* the Marker's text, so that the text of the document is unchanged,
\* empties the marker registry, and changes nothing when called again;
\* highlightSymbols does not change the text of the document either.
C22_RemoveRestoresText ==
  LET w == removeHighlights(World)
  IN  /\ \A id \in 1..Len(w.nodes) :
           w.nodes[id].cls = "stockalert-symbol" => ~Connected(w.nodes, id)
      /\ \A m \in OuterMarkers(nodes) :
           LET p == Parent(nodes, m)
               i == IndexOf(nodes, p, m) + 1
               t == w.nodes[p].kids[i]
           IN  /\ Len(w.nodes[p].kids) = Len(nodes[p].kids)
               /\ w.nodes[t].kind = "text"
               /\ w.nodes[t].data = TextContent(nodes, m)
      /\ \A ns \in {w.nodes, highlightSymbols(World).nodes} :
           TextContent(ns, Body) = TextContent(nodes, Body)
      /\ w.hl = << >>
      /\ removeHighlights(w) = w

\* removeHighlights has been called on a document that held Markers: text
\* nodes holding a token stand where the Markers were
C22_MarkersReplaced ==
  /\ events.calls > 2
  /\ highlightedElements = << >>
  /\ Markers = {}
  /\ detectedSymbols # << >>
  /\ \E n \in PageTexts :
       /\ nodes[n].data = detectedSymbols[1].symbol
       /\ Len(nodes[Parent(nodes, n)].kids) > 1

\* C23: the panel showOverlay has placed lies inside the window: its left
\* and top are not negative, and its right and bottom edges are within the
\* window's inner width and height.
C23_PanelInsideWindow ==
  \A p \in Panels :
    nodes[p].place # << >> =>
      /\ 0 <= nodes[p].place[1]
      /\ nodes[p].place[1] + geometry.w <= geometry.W
      /\ 0 <= nodes[p].place[2]
      /\ nodes[p].place[2] + geometry.h <= geometry.H

\* C24: the apiKey entry never holds a string that does not start with
\* sk_, and neither does a save on its way to the entry; an attempt that
\* is turned down reports an error and leaves the entry as it was, and the
\* entry changes only to a key starting with sk_.
C24_OnlySkKeysStored ==
  /\ [](/\ apiKey # NoKey => StartsWith(apiKey, SkPrefix)
        /\ \A i \in 1..Len(saving) : StartsWith(saving[i].key, SkPrefix))
  /\ [][ /\ Len(saving') > Len(saving) =>
             /\ StartsWith(saving'[Len(saving')].key, SkPrefix)
             /\ apiKey' = apiKey
         /\ (report' # report /\ saving' = saving) =>
             /\ ~report'.ok
             /\ report'.text \in {EnterKeyText, InvalidFormatText}
             /\ ~StartsWith(IF report'.path = "popup"
                            THEN Trim(report'.input) ELSE report'.input,
                            SkPrefix)
             /\ apiKey' = apiKey
         /\ apiKey' # apiKey =>
             /\ StartsWith(apiKey', SkPrefix)
             /\ report'.ok
       ]_vars

\* a key saved from the popup is still stored after the background has
\* turned down a message whose key holds sk_ but does not start with it
C24_RejectedKeepsStoredKey ==
  /\ apiKey = <<"s","k","_","a">>
  /\ report.path = "background"
  /\ ~report.ok
  /\ report.input = <<"x","s","k","_">>
  /\ saving = << >>

\* the settings object init holds after its read settled
InitHolds(ok) == IF ok THEN getSettings(settings) ELSE InitDefaults

\* init has returned, or will return, without creating a detector
DetectionOff == host = "stockalert.pro" \/ (pc = "done" /\ ~detector)

\* C25: when the settings init holds have autoDetect false, init ends
\* without a detector; and without a detector (that case and the
\* stockalert.pro host) nothing is ever scanned, marked, observed or
\* listened for, whatever the page does and however many RESCAN_PAGE
\* messages arrive.
C25_NoDetectionWhenOff ==
  /\ [](DetectionOff =>
          /\ ~detector /\ ~listeners /\ ~domListener
          /\ detEpoch = 0 /\ detectedSymbols = << >> /\ cycles = << >>
          /\ ~observing /\ timers = << >>
          /\ highlightedElements = << >>
          /\ \A id \in 1..Len(nodes) :
               nodes[id].cls \notin {"stockalert-symbol", "stockalert-overlay"}
          /\ overlay = NoNode /\ currentSymbol = NoSymbol)
  /\ [][ \A ok \in BOOLEAN :
           (InitSettings(ok) /\ ~InitHolds(ok).autoDetect) => ~detector'
       ]_vars

\* with autoDetect read as false, a RESCAN_PAGE message has arrived after
\* init ended and the page has added an element
C25_RescanWithoutDetector ==
  /\ host = "other"
  /\ settings # InvalidSettings /\ ~settings.autoDetect
  /\ pc = "done" /\ ~detector
  /\ events.messages > 0
  /\ events.page > 0
  /\ readyState = "complete"

\* C26: a panel opened over another token's open overlay, that is after
\* the hide request showOverlay made for that overlay, stays the open
\* overlay, in the document and with its token as currentSymbol, as long
\* as no user input follows: the earlier teardown does not remove it.
C26_LaterOverlaySurvives ==
  replaced # NoNode =>
    /\ overlay = replaced
    /\ Connected(nodes, replaced)
    /\ currentSymbol = nodes[replaced].symbol

\* C27: with autoDetect on and highlightSymbols off, a debounced rescan creates
\* no Marker: the marker registry does not grow and the document holds no
\* Marker after it that it did not hold before.
C27_RescanRespectsSetting ==
  [][ ( /\ rescans' > rescans
        /\ settings # InvalidSettings
        /\ settings.autoDetect
        /\ ~settings.highlightSymbols )
      => /\ Len(highlightedElements') = Len(highlightedElements)
         /\ \A id \in 1..Len(nodes') :
              nodes'[id].cls = "stockalert-symbol" => id <= Len(nodes)
    ]_vars

\* C28: no Marker lies inside another Marker.
C28_NoNestedMarkers ==
  \A m \in 1..Len(nodes) :
    nodes[m].cls = "stockalert-symbol" =>
      \A a \in Ancestors(nodes, m) : nodes[a].cls # "stockalert-symbol"

\* C29: no Marker lies inside an element the content script itself put
\* into the page: the overlay panel or a notification toast.
C29_NoMarkerInOwnElements ==
  \A m \in 1..Len(nodes) :
    nodes[m].cls = "stockalert-symbol" =>
      \A a \in Ancestors(nodes, m) :
        nodes[a].cls # "stockalert-overlay" /\ nodes[a].toast = ""

\* the number of external events that can put unwrapped text on the page
\* or arm the observer: the page's mutations and the calls on the detector
ExternalEvents == events.page + events.calls

\* rescans run or still to run
RescansOwed == rescans + (IF RescanPending(timers) THEN 1 ELSE 0)

RescanBudget == RescansOwed <= 2 * ExternalEvents

\* C30: once the page and the caller stop, the observe-rescan-highlight
\* loop stops too. Every external event is followed by at most two
\* rescans (the one it arms, and the one that rescan's own Marker
\* insertions arm, which inserts nothing), so the timer is eventually
\* never pending again and the Marker set eventually never changes.
C30_RescanLoopSettles ==
  /\ [](RescanBudget)
  /\ <>[](~RescanPending(timers))
  /\ <>[][highlightedElements' = highlightedElements]_vars

\* one page mutation armed a rescan that inserted Markers; those
\* insertions armed a second rescan, which ran and armed nothing
C30_SelfTriggeredRescanSettled ==
  /\ observing
  /\ ExternalEvents = 2
  /\ rescans = 2
  /\ ~RescanPending(timers)
  /\ highlightedElements # << >>

\* SpecToggle reaches OpenedState, the state SpecSwitch starts in: this
\* predicate is violated under SpecToggle
OpenedStateNotReached == ~OpenedState

HideTimers(tms) == { i \in 1..Len(tms) : tms[i].kind = "hide" }

\* C31: when addToWatchlist or removeFromWatchlist started for token T
\* resolves, hideOverlay is called only if currentSymbol is still T; an
\* overlay open for another token keeps its node, its place in the tree,
\* its opacity and its button, stays the current overlay, and no hide
\* timer is set.
C31_ToggleClosesOnlyOwnToken ==
  [][\A t \in 1..Len(toggles) :
       ToggleDone(t, TRUE) =>
         LET T == toggles[t].symbol
         IN  /\ Cardinality(HideTimers(timers')) >
                  Cardinality(HideTimers(timers)) => currentSymbol = T
             /\ overlay # NoNode /\ currentSymbol # T =>
                  /\ overlay' = overlay
                  /\ currentSymbol' = currentSymbol
                  /\ nodes'[overlay] = nodes[overlay]
                  /\ Connected(nodes', overlay) = Connected(nodes, overlay)
                  /\ HideTimers(timers') = HideTimers(timers)]_vars

\* the toggle for MSFT has shown its success toast while the overlay the
\* user opened meanwhile for BRK.A is open and visible
C31_OtherOverlayLeftOpen ==
  /\ overlay # NoNode
  /\ Connected(nodes, overlay)
  /\ currentSymbol # SwitchSymbol
  /\ nodes[overlay].symbol = currentSymbol
  /\ nodes[overlay].opacity = "1"
  /\ \E toast \in Toasts :
       /\ nodes[toast].toast = "success"
       /\ TextContent(nodes, toast) = SwitchSymbol \o AddedText

\* the grants of key with a timestamp in (t - windowMs, t]
GrantsIn(key, t) ==
  { i \in 1..Len(grants) :
      /\ grants[i].key = key
      /\ grants[i].timestamp > t - limiter.config.windowMs
      /\ grants[i].timestamp <= t }

\* C32: with the clock never going back, the isAllowed calls of a key that
\* returned true with a timestamp in any interval (t - windowMs, t], no
\* reset of that key in between, number at most maxRequests.
C32_AtMostMaxPerWindow ==
  \A key \in LimiterKeys, t \in 0..now :
    Cardinality(GrantsIn(key, t)) <= limiter.config.maxRequests

\* a call on the limiter has just returned
Returned(op) == returned'.n = returned.n + 1 /\ returned'.op = op

\* the instants from now on at which a record of today can still count
Instants == now..(MaxNow + MaxWindow)

\* C33: an isAllowed call that returns false, and every getRemaining call,
\* leaves the limiter as it was: the Map and its record lists are the same,
\* and so is what getRemaining gives for every key at every later instant.
C33_RejectedCallsLeaveNoTrace ==
  [][(Returned("isAllowed") /\ ~returned'.allowed) \/ Returned("getRemaining")
       => /\ limiter' = limiter
          /\ \A key \in LimiterKeys, t \in Instants :
               getRemaining(limiter', key, t) = getRemaining(limiter, key, t)
    ]_vars

\* a key with a positive quota used up has just been refused
C33_RefusedAtFullQuota ==
  /\ returned.op = "isAllowed"
  /\ ~returned.allowed
  /\ limiter.config.maxRequests > 0
  /\ Len(MapGet(limiter.requests, returned.key)) =
       limiter.config.maxRequests

\* C34: isAllowed(key) returns true exactly when getRemaining(key) at the
\* same instant is above 0; a granted call lowers getRemaining(key) at that
\* instant by exactly 1; getRemaining is always in 0..maxRequests.
C34_AllowedIffRemaining ==
  /\ [](\A key \in LimiterKeys, t \in Instants :
          getRemaining(limiter, key, t) \in 0..limiter.config.maxRequests)
  /\ [][Returned("isAllowed") =>
          LET key == returned'.key
          IN  /\ returned'.allowed <=> getRemaining(limiter, key, now) > 0
              /\ returned'.allowed =>
                   getRemaining(limiter', key, now) =
                     getRemaining(limiter, key, now) - 1]_vars

\* a key with a quota of two has been granted its last request
C34_LastRequestGranted ==
  /\ returned.op = "isAllowed"
  /\ returned.allowed
  /\ limiter.config.maxRequests = MaxQuota
  /\ getRemaining(limiter, returned.key, now) = 0

\* C35: reset(key) with any string key, the empty string too, removes that
\* key's records and no other key's: the key has its full quota again and
\* every other key keeps its records and its remaining quota; reset()
\* clears the records of all keys.
C35_ResetOnlyThatKey ==
  [][/\ Returned("reset") =>
          LET key == returned'.key
          IN  /\ key \notin DOMAIN limiter'.requests
              /\ getRemaining(limiter', key, now) =
                   limiter.config.maxRequests
              /\ \A other \in LimiterKeys \ {key} :
                   /\ other \in DOMAIN limiter'.requests <=>
                        other \in DOMAIN limiter.requests
                   /\ MapGet(limiter'.requests, other) =
                        MapGet(limiter.requests, other)
                   /\ getRemaining(limiter', other, now) =
                        getRemaining(limiter, other, now)
     /\ Returned("resetAll") => limiter'.requests = EmptyMap]_vars

\* C36: every HTTP request of StockAlertApiClient is first admitted by
\* apiRateLimiter.isAllowed: a step that issues a request is one in which
\* isAllowed returned true for some key and recorded the request.
C36_RequestsAdmittedByLimiter ==
  [][Len(requests') > Len(requests) =>
       \E key \in LimiterKeys :
         /\ isAllowed(limiter, key, now).value
         /\ limiter' = isAllowed(limiter, key, now).limiter]_vars

KnownTypes ==
  ApiTypes \cup {"OPEN_ALERT_MODAL", "SAVE_API_KEY", "GET_SETTINGS",
                 "UPDATE_SETTINGS"}

\* C37: sendResponse is called at most once for a message, and exactly
\* once when its handler has settled: with success true when the handler
\* resolved, with success false and the error's message when it rejected;
\* a message of a type the listener does not know is answered in the
\* listener itself with success false and 'Unknown message type'.
C37_OneResponsePerMessage ==
  \A i \in 1..Len(inbox) :
    LET msg == inbox[i]
    IN  /\ Len(msg.responses) <= 1
        /\ msg.type \notin KnownTypes <=> msg.stage = "unknown"
        /\ msg.stage = "unknown" =>
             msg.responses = << Response(FALSE, UnknownTypeText) >>
        /\ msg.stage = "resolved" =>
             msg.responses = << Response(TRUE, "") >>
        /\ msg.stage = "rejected" =>
             /\ msg.error # ""
             /\ msg.responses = << Response(FALSE, msg.error) >>
        /\ msg.stage \in StorageStages \cup {"api"} =>
             msg.responses = << >>

\* a handler whose API request failed has been answered, and so has a
\* message of an unknown type
C37_FailedHandlerAnswered ==
  /\ \E i \in 1..Len(inbox) :
       /\ inbox[i].type \in ApiTypes
       /\ inbox[i].responses = << Response(FALSE, RequestFailedText) >>
  /\ \E i \in 1..Len(inbox) : inbox[i].stage = "unknown"

\* the OPEN_ALERT_MODAL messages whose handler has stored its symbol
Wrote(msg) ==
  /\ msg.type = "OPEN_ALERT_MODAL"
  /\ getApiKey(msg.read) # NoKey
  /\ (msg.stage = "set" /\ msg.ok) \/ msg.stage = "resolved"

Writers == { i \in 1..Len(inbox) : Wrote(inbox[i]) }

SettingsFields == {"autoDetect", "highlightSymbols"}

\* the updateSettings calls that name field f, in the order they were made
Naming(f) ==
  { i \in 1..Len(inbox) :
      inbox[i].type = "UPDATE_SETTINGS" /\ f \in DOMAIN inbox[i].payload.updates }

Latest(S) == CHOOSE i \in S : \A j \in S : j <= i

\* C39: once every updateSettings call made has completed, the stored
\* settings hold, for each field, the value of the latest update that
\* names it, and the value stored before for a field no update names,
\* whether or not the calls overlapped.
C39_UpdatesAllTakeEffect ==
  (/\ inbox # << >>
   /\ \A i \in 1..Len(inbox) :
        inbox[i].type = "UPDATE_SETTINGS" /\ inbox[i].stage = "resolved")
  => \A f \in SettingsFields :
       settings[f] =
         IF Naming(f) # {}
         THEN inbox[Latest(Naming(f))].payload.updates[f]
         ELSE getSettings(inbox[1].read.settings)[f]

====
